---- MODULE Spec2Model ----
(***************************************************************************)
(* Precompile hint stream processor                                        *)
(* (precompiles/common/src/precompiles_hints.rs).                          *)
(*                                                                         *)
(* A caller thread calls process_hints / wait_for_completion / reset on a  *)
(* PrecompileHintsProcessor; every data hint is handed to a pool task.     *)
(* Each action below is one atomic step of one thread: an access to one of *)
(* the atomics (has_error, next_seq, generation), or a run of statements   *)
(* executed while holding the `reorder` mutex that touch only the data the *)
(* mutex guards.                                                           *)
(*                                                                         *)
(* A u64 word is the pair <<hi, lo>> of its two u32 halves, so             *)
(* `w >> 32` is w[1] and `w & 0xFFFFFFFF` is w[2].                         *)
(***************************************************************************)
EXTENDS Integers, Sequences, FiniteSets, TLC

\* ----------------------------------------------------------------- bounds
MaxTasks == 3      \* data hints dispatched over a whole behaviour
MaxGen == 2        \* resets over a whole behaviour
MaxRecs == 2       \* records in one buffer handed to process_hints
NumThreads == 2    \* threads of the pool (tests: with_num_threads(2))
MaxSliceLen == 3   \* words in a slice handed to from_u64_slice on its own

\* -------------------------------------------------------------- constants
HINTS_TYPE_RESULT == 1
HINTS_TYPE_ECRECOVER == 2
STREAM_CTRL_SHIFT == 24
STREAM_CTRL_NONE == 0
STREAM_CTRL_START == 1
STREAM_CTRL_END == 2
STREAM_CTRL_CANCEL == 3
STREAM_CTRL_ERROR == 4
UnknownType == 999          \* the type the tests use for "no handler"

Pow2(n) == 2 ^ n

\* Mutant: the control byte taken from bits 23..16.
CtrlOf_Shift16(hint_type) == (hint_type \div Pow2(16)) % 256

\* (hint_type & STREAM_CTRL_MASK) >> STREAM_CTRL_SHIFT and
\* hint_type & STREAM_BASE_MASK (lines 253-254).
CtrlOf(hint_type) == (hint_type \div Pow2(STREAM_CTRL_SHIFT)) % 256

\* Mutant: STREAM_BASE_MASK = 0x0000_FFFF.
BaseOf_Mask16(hint_type) == hint_type % Pow2(16)

BaseOf(hint_type) == hint_type % Pow2(STREAM_CTRL_SHIFT)

\* ------------------------------------------------------- test helpers
make_header(hint_type, length) == <<hint_type, length>>

make_header_with_ctrl(base_type, ctrl, length) ==
    make_header(((ctrl % 256) * Pow2(STREAM_CTRL_SHIFT))
                  + (base_type % Pow2(STREAM_CTRL_SHIFT)), length)

\* ------------------------------------------------------------ messages
MsgOk == "Ok"
MsgPending == "pending"
MsgPrevError == "Processing stopped due to previous error"
MsgWaitError == "Processing stopped due to error"
MsgCancelled == "Stream cancelled"
MsgSignalled == "Stream error signalled"
MsgTooShort == "Slice too short to contain a hint"
MsgTruncated == "Slice too short for hint data"
MsgUnknown == "Unknown hint type"

IsErr(r) == r \notin {MsgOk, MsgPending}

\* ---------------------------------------------------------- record parser
NoHint == [ok |-> FALSE, msg |-> MsgPending, hint_type |-> 0, data |-> <<>>]

\* Mutant: the data taken from slice[idx..idx + length].
from_u64_slice_FromHeader(slice, idx) ==
    IF Len(slice) = 0 \/ idx >= Len(slice)
    THEN [ok |-> FALSE, msg |-> MsgTooShort, hint_type |-> 0, data |-> <<>>]
    ELSE LET header == slice[idx + 1]
             hint_type == header[1]
             length == header[2]
         IN  IF Len(slice) < idx + length + 1
             THEN [ok |-> FALSE, msg |-> MsgTruncated, hint_type |-> 0, data |-> <<>>]
             ELSE [ok |-> TRUE, msg |-> MsgOk, hint_type |-> hint_type,
                   data |-> SubSeq(slice, idx + 1, idx + length)]

\* PrecompileHint::from_u64_slice; idx counts from 0 as in the source.
from_u64_slice(slice, idx) ==
    IF Len(slice) = 0 \/ idx >= Len(slice)
    THEN [ok |-> FALSE, msg |-> MsgTooShort, hint_type |-> 0, data |-> <<>>]
    ELSE LET header == slice[idx + 1]
             hint_type == header[1]
             length == header[2]
         IN  IF Len(slice) < idx + length + 1
             THEN [ok |-> FALSE, msg |-> MsgTruncated, hint_type |-> 0, data |-> <<>>]
             ELSE [ok |-> TRUE, msg |-> MsgOk, hint_type |-> hint_type,
                   data |-> SubSeq(slice, idx + 2, idx + length + 1)]

\* ------------------------------------------------------- handler registry
NoResult == [ok |-> FALSE, val |-> <<>>, msg |-> MsgPending]

process_hint_result(data) == [ok |-> TRUE, val |-> data, msg |-> MsgOk]

process_hint_ecrecover(data) == [ok |-> TRUE, val |-> <<>>, msg |-> MsgOk]

\* PrecompileHintsProcessor::process_hint
process_hint(hint_type, data) ==
    IF hint_type = HINTS_TYPE_RESULT THEN process_hint_result(data)
    ELSE IF hint_type = HINTS_TYPE_ECRECOVER THEN process_hint_ecrecover(data)
    ELSE [ok |-> FALSE, val |-> <<>>, msg |-> MsgUnknown]

\* ------------------------------------------------------------------ state
VARIABLES
    buffer,       \* reorder.buffer: slots, front first
    base_seq,     \* reorder.base_seq
    next_seq,     \* shared.next_seq
    has_error,    \* shared.has_error
    generation,   \* shared.generation
    lock,         \* owner of the shared.reorder mutex
    tasks,        \* the closures spawned on the pool that have not returned
    callers,      \* the threads that call the processor's methods
    spawned,      \* history: the number of closures spawned so far
    failed,       \* history: the hints whose handler returned Err
    delivered,    \* history: the hints whose Ok result was popped, in order
    writer,       \* the UnixSocketStreamWriter and the result of its last call
    reader,       \* the UnixSocketStreamReader and the result of its last call
    kernel,       \* the sockets, the accept thread and its channel
    written,      \* history: the items whose write returned Ok, in order
    received,     \* history: what the calls of next returned, in order
    hints_shmem,  \* the HintsShmem and the result of its last call
    hint_buffer,  \* HintBufferInner behind its mutex: queue, closed, paused
    drainer,      \* the thread in HintBuffer::drain_to_writer and its locals
    sink,         \* the writer handed to drain_to_writer
    guest         \* the thread in write_hint_segments, and what it enqueued

\* The objects outside the hints processor.
hb == <<hint_buffer, drainer, sink, guest>>

io == <<writer, reader, kernel, written, received, hints_shmem, hb>>

vars == <<buffer, base_seq, next_seq, has_error, generation, lock, tasks,
          callers, spawned, failed, delivered, io>>

shared == <<buffer, base_seq, next_seq, has_error, generation, lock, tasks,
            spawned, failed, delivered, io>>

Callers == {1}

NoOwner == <<"none", 0>>
CallerOwner(c) == <<"caller", c>>
TaskOwner(t) == <<"task", t>>

\* Option<Result<Vec<u64>>>: None, Some(Ok(val)), Some(Err(msg)). `by` is
\* history: the closure (its id and the generation and seq it captured)
\* that stored the result.
NoTask == [tid |-> 0, generation |-> 0, seq_id |-> 0]
Tag(t) == [tid |-> t.tid, generation |-> t.generation, seq_id |-> t.seq_id]
None == [ready |-> FALSE, ok |-> FALSE, val |-> <<>>, msg |-> MsgPending, by |-> NoTask]
Some(res, t) ==
    [ready |-> TRUE, ok |-> res.ok, val |-> res.val, msg |-> res.msg,
     by |-> Tag(t)]

IdleCaller(op, ret) ==
    [pc |-> "idle", op |-> op, hints |-> <<>>, idx |-> 0, hint |-> NoHint,
     gen |-> 0, ret |-> ret]

\* UnixSocketStreamWriter::new: every Option field is None (FALSE). op and
\* ret are the last method called and its result, n the Ok(usize) of write.
NewWriter ==
    [listener_fd |-> FALSE, socket |-> FALSE, socket_receiver |-> FALSE,
     accept_thread |-> FALSE, op |-> "new", ret |-> "Ok", n |-> 0]

\* UnixSocketStreamReader::new. pc is "recv" inside next, at libc::recv.
NewReader == [socket |-> FALSE, pc |-> "idle", op |-> "new", ret |-> "Ok"]

\* What the writer and the reader share through the operating system and
\* the accept thread: the listening socket, the connection waiting in its
\* queue (pending), the accept thread (none, blocked in accept, accepted,
\* exited), the mpsc channel (its UnixStream and whether tx is alive), the
\* two ends of the connection (none, open, closed) and the messages sent to
\* the reader and not yet received.
NoKernel ==
    [listening |-> FALSE, pending |-> FALSE, accept |-> "none",
     in_channel |-> FALSE, tx_alive |-> FALSE,
     server |-> "none", client |-> "none", queue |-> <<>>]

\* HintsShmem::new(shmem_names, _): no writer yet.
NewHintsShmem(shmem_names) ==
    [shmem_names |-> shmem_names, shmem_writers |-> <<>>, op |-> "new",
     ret |-> "Ok"]

\* build_hint_buffer: the buffer starts closed and paused, its queue empty.
\* cur and ref_verify are left out: nothing in write_hint_segments or
\* drain_to_writer reads them.
build_hint_buffer == [queue |-> <<>>, closed |-> TRUE, paused |-> TRUE]

\* The thread that runs drain_to_writer. pc: "none" before the call, "lock"
\* about to take the mutex, "blocked" inside not_empty.wait, "got" holding
\* Some(hint_bytes), "finish" holding None, "done" after the return.
\* popped is history: the hints taken from the queue, oldest first.
NewDrainer ==
    [pc |-> "none", hint_bytes |-> <<>>, out_buf |-> <<>>, ret |-> "none",
     popped |-> <<>>]

\* The W: Write of drain_to_writer. chunks is the argument of every
\* write_all that returned Ok, oldest first; a broken writer fails every
\* write_all.
NewSink == [chunks |-> <<>>, broken |-> FALSE]

\* The thread that calls write_hint_segments. pc is "emit" between the
\* is_enabled test and the push. pushed is history: the hints pushed since
\* the last reset, oldest first.
NewGuest ==
    [pc |-> "idle", hint_id |-> 0, data |-> <<>>, result |-> FALSE,
     pushed |-> <<>>]

IdleHb ==
    /\ hint_buffer = build_hint_buffer
    /\ drainer = NewDrainer
    /\ sink = NewSink
    /\ guest = NewGuest

IdleIo ==
    /\ writer = NewWriter
    /\ reader = NewReader
    /\ kernel = NoKernel
    /\ written = <<>>
    /\ received = <<>>
    /\ hints_shmem = NewHintsShmem(<<>>)
    /\ IdleHb

\* SharedState::new, PrecompileHintsProcessor::with_num_threads
Init ==
    /\ buffer = <<>>
    /\ base_seq = 0
    /\ next_seq = 0
    /\ has_error = FALSE
    /\ generation = 0
    /\ lock = NoOwner
    /\ tasks = {}
    /\ callers = [c \in Callers |-> IdleCaller("none", MsgPending)]
    /\ spawned = 0
    /\ failed = {}
    /\ delivered = <<>>
    /\ IdleIo

\* ------------------------------------------------------- caller inputs
Payload == <<0, 17>>

\* The records a caller may put in a buffer (the shapes the tests build).
RecResult == <<make_header(HINTS_TYPE_RESULT, 1), Payload>>
RecUnknown == <<make_header(UnknownType, 0)>>
RecStart == <<make_header_with_ctrl(HINTS_TYPE_RESULT, STREAM_CTRL_START, 0)>>
RecEnd == <<make_header_with_ctrl(HINTS_TYPE_RESULT, STREAM_CTRL_END, 0)>>
RecCancel == <<make_header_with_ctrl(HINTS_TYPE_RESULT, STREAM_CTRL_CANCEL, 0)>>
RecError == <<make_header_with_ctrl(HINTS_TYPE_RESULT, STREAM_CTRL_ERROR, 0)>>
\* A header that announces more words than any buffer has left after it.
RecTruncated == <<make_header(HINTS_TYPE_RESULT, 2 * MaxRecs), Payload>>

RecordKinds == {RecResult, RecUnknown, RecStart, RecEnd, RecCancel, RecError,
                RecTruncated}

RECURSIVE Concat(_)
Concat(recs) == IF recs = <<>> THEN <<>> ELSE Head(recs) \o Concat(Tail(recs))

RecSeqs == UNION {[1..n -> RecordKinds] : n \in 0..MaxRecs}

\* Upper bounds on what scanning `recs` can dispatch / reset.
MayDispatch(recs) ==
    Cardinality({i \in DOMAIN recs : CtrlOf(recs[i][1][1]) \notin
                    {STREAM_CTRL_START, STREAM_CTRL_END, STREAM_CTRL_CANCEL,
                     STREAM_CTRL_ERROR}})
MayReset(recs) ==
    Cardinality({i \in DOMAIN recs : CtrlOf(recs[i][1][1]) = STREAM_CTRL_START})

\* ----------------------------------------------------------- primitives
\* Mutant: the notification wakes nobody.
notify_all_Lost(cs) == cs

\* Condvar::notify_all: every thread blocked in wait() goes on to take the
\* mutex again.
notify_all(cs) ==
    [c \in DOMAIN cs |-> IF cs[c].pc = "wfc_blocked"
                        THEN [cs[c] EXCEPT !.pc = "wfc_lock"] ELSE cs[c]]

\* `return r` from the public call the caller is in.
Return(c, r) == [callers EXCEPT ![c] = IdleCaller(callers[c].op, r)]

\* Mutant: `idx += 1`, the payload is scanned as the next record.
Continue_HeaderOnly(c) ==
    [callers EXCEPT ![c].pc = "ph_loop",
                    ![c].idx = callers[c].idx + 1,
                    ![c].hint = NoHint, ![c].gen = 0]

\* `idx += length + 1; continue`
Continue(c) ==
    [callers EXCEPT ![c].pc = "ph_loop",
                    ![c].idx = callers[c].idx + Len(callers[c].hint.data) + 1,
                    ![c].hint = NoHint, ![c].gen = 0]

\* ------------------------------------------------------ process_hints
\* The call and its entry check of has_error (lines 235-242).
PHEntry(c, recs) ==
    /\ callers[c].pc = "idle"
    /\ spawned + MayDispatch(recs) <= MaxTasks
    /\ generation + MayReset(recs) <= MaxGen
    /\ IF has_error
       THEN callers' = [callers EXCEPT ![c] = IdleCaller("process_hints", MsgPrevError)]
       ELSE callers' = [callers EXCEPT ![c].pc = "ph_loop",
                                       ![c].op = "process_hints",
                                       ![c].hints = Concat(recs),
                                       ![c].idx = 0,
                                       ![c].ret = MsgPending]
    /\ UNCHANGED shared

\* Mutant: an empty buffer is handed to the parser.
PHDone_ParsesEmpty(c) ==
    /\ callers[c].pc = "ph_loop"
    /\ callers[c].idx >= Len(callers[c].hints)
    /\ callers' = Return(c, IF callers[c].hints = <<>> THEN MsgTooShort ELSE MsgOk)
    /\ UNCHANGED shared

\* Mutant: the call returns only when the buffer has been drained.
PHDone_WaitsDrain(c) ==
    /\ callers[c].pc = "ph_loop"
    /\ callers[c].idx >= Len(callers[c].hints)
    /\ buffer = <<>>
    /\ callers' = Return(c, MsgOk)
    /\ UNCHANGED shared

\* `while idx < hints.len()` is false: Ok(()) (lines 243, 370).
PHDone(c) ==
    /\ callers[c].pc = "ph_loop"
    /\ callers[c].idx >= Len(callers[c].hints)
    /\ callers' = Return(c, MsgOk)
    /\ UNCHANGED shared

\* The parse of the record at idx and the control decode (lines 249-284):
\* where the caller goes next.
ScanRecord(c) ==
    LET hint == from_u64_slice(callers[c].hints, callers[c].idx)
        ctrl == CtrlOf(hint.hint_type)
    IN  IF ~hint.ok
        THEN Return(c, hint.msg)
        ELSE [callers EXCEPT
                ![c].hint = hint,
                ![c].pc = CASE ctrl = STREAM_CTRL_START -> "rst_err"
                            [] ctrl = STREAM_CTRL_CANCEL -> "ph_cancel"
                            [] ctrl = STREAM_CTRL_ERROR -> "ph_error"
                            [] ctrl = STREAM_CTRL_END -> "wfc_lock"
                            [] OTHER -> "ph_reserve"]

\* Mutant: no check of has_error before a record.
PHRecord_NoErrorCheck(c) ==
    /\ callers[c].pc = "ph_loop"
    /\ callers[c].idx < Len(callers[c].hints)
    /\ callers' = ScanRecord(c)
    /\ UNCHANGED shared

\* Mutant: a record that does not parse sets the error flag.
PHRecord_ParseErrorSticky(c) ==
    /\ callers[c].pc = "ph_loop"
    /\ callers[c].idx < Len(callers[c].hints)
    /\ callers' = IF has_error THEN Return(c, MsgPrevError) ELSE ScanRecord(c)
    /\ has_error' = (has_error \/ ~from_u64_slice(callers[c].hints, callers[c].idx).ok)
    /\ UNCHANGED <<io, buffer, base_seq, next_seq, generation, lock, tasks, spawned, failed, delivered>>

\* The per-record check of has_error (lines 244-247), then the record.
PHRecord(c) ==
    /\ callers[c].pc = "ph_loop"
    /\ callers[c].idx < Len(callers[c].hints)
    /\ callers' = IF has_error THEN Return(c, MsgPrevError) ELSE ScanRecord(c)
    /\ UNCHANGED shared

\* STREAM_CTRL_CANCEL (lines 265-270).
PHCancel(c) ==
    /\ callers[c].pc = "ph_cancel"
    /\ has_error' = TRUE
    /\ callers' = notify_all(Return(c, MsgCancelled))
    /\ UNCHANGED <<io, buffer, base_seq, next_seq, generation, lock, tasks, spawned, failed, delivered>>

\* Mutant: the ERROR branch without its `return`.
PHError_NoReturn(c) ==
    /\ callers[c].pc = "ph_error"
    /\ has_error' = TRUE
    /\ callers' = notify_all(Continue(c))
    /\ UNCHANGED <<io, buffer, base_seq, next_seq, generation, lock, tasks, spawned, failed, delivered>>

\* STREAM_CTRL_ERROR (lines 271-276).
PHError(c) ==
    /\ callers[c].pc = "ph_error"
    /\ has_error' = TRUE
    /\ callers' = notify_all(Return(c, MsgSignalled))
    /\ UNCHANGED <<io, buffer, base_seq, next_seq, generation, lock, tasks, spawned, failed, delivered>>

\* Slot reservation, first half: lock the mutex, load the generation
\* (lines 289-290).
PHReserve(c) ==
    /\ callers[c].pc = "ph_reserve"
    /\ lock = NoOwner
    /\ lock' = CallerOwner(c)
    /\ callers' = [callers EXCEPT ![c].pc = "ph_push", ![c].gen = generation]
    /\ UNCHANGED <<io, buffer, base_seq, next_seq, has_error, generation, tasks, spawned, failed, delivered>>

\* Mutant: the closure gets the value of next_seq after the fetch_add.
NewTask_SeqAfter(tid, gen, seq, hint) ==
    [tid |-> tid, generation |-> gen, seq_id |-> seq + 1,
     base_type |-> BaseOf(hint.hint_type), data |-> hint.data,
     pc |-> "queued", result |-> NoResult]

\* Mutant: the handler is selected by the whole hint_type.
NewTask_FullType(tid, gen, seq, hint) ==
    [tid |-> tid, generation |-> gen, seq_id |-> seq,
     base_type |-> hint.hint_type, data |-> hint.data,
     pc |-> "queued", result |-> NoResult]

\* The closure handed to pool.spawn: what it captures, and where it is.
NewTask(tid, gen, seq, hint) ==
    [tid |-> tid, generation |-> gen, seq_id |-> seq,
     base_type |-> BaseOf(hint.hint_type), data |-> hint.data,
     pc |-> "queued", result |-> NoResult]

\* Slot reservation, second half, and the spawn: next_seq.fetch_add,
\* push_back(None), unlock, pool.spawn, idx += length + 1 (lines 291-298, 367).
PHPush(c) ==
    /\ callers[c].pc = "ph_push"
    /\ lock = CallerOwner(c)
    /\ next_seq' = next_seq + 1
    /\ buffer' = Append(buffer, None)
    /\ lock' = NoOwner
    /\ tasks' = tasks \cup {NewTask(spawned + 1, callers[c].gen, next_seq, callers[c].hint)}
    /\ spawned' = spawned + 1
    /\ callers' = Continue(c)
    /\ UNCHANGED <<io, base_seq, has_error, generation, failed, delivered>>

\* ----------------------------------------------------------------- reset
\* A direct call of reset() (the tests call it).
ResetCall(c) ==
    /\ callers[c].pc = "idle"
    /\ generation < MaxGen
    /\ callers' = [callers EXCEPT ![c].pc = "rst_err", ![c].op = "reset",
                                  ![c].ret = MsgPending]
    /\ UNCHANGED shared

\* has_error.store(false) (line 408).
ResetError(c) ==
    /\ callers[c].pc = "rst_err"
    /\ has_error' = FALSE
    /\ callers' = [callers EXCEPT ![c].pc = "rst_seq"]
    /\ UNCHANGED <<io, buffer, base_seq, next_seq, generation, lock, tasks, spawned, failed, delivered>>

\* Mutant: reset() without next_seq.store(0).
ResetSeq_Keeps(c) ==
    /\ callers[c].pc = "rst_seq"
    /\ callers' = [callers EXCEPT ![c].pc = "rst_gen"]
    /\ UNCHANGED shared

\* next_seq.store(0) (line 409).
ResetSeq(c) ==
    /\ callers[c].pc = "rst_seq"
    /\ next_seq' = 0
    /\ callers' = [callers EXCEPT ![c].pc = "rst_gen"]
    /\ UNCHANGED <<io, buffer, base_seq, has_error, generation, lock, tasks, spawned, failed, delivered>>

\* generation.fetch_add(1) (line 411).
ResetGeneration(c) ==
    /\ callers[c].pc = "rst_gen"
    /\ generation' = generation + 1
    /\ callers' = [callers EXCEPT ![c].pc = "rst_lock"]
    /\ UNCHANGED <<io, buffer, base_seq, next_seq, has_error, lock, tasks, spawned, failed, delivered>>

\* lock; buffer.clear(); base_seq = 0; unlock (lines 412-415); then the
\* return, to the test or to the scan after a START record (lines 261-263).
ResetClear(c) ==
    /\ callers[c].pc = "rst_lock"
    /\ lock = NoOwner
    /\ buffer' = <<>>
    /\ base_seq' = 0
    /\ callers' = IF callers[c].op = "reset" THEN Return(c, MsgOk) ELSE Continue(c)
    /\ UNCHANGED <<io, next_seq, has_error, generation, lock, tasks, spawned, failed, delivered>>

\* --------------------------------------------------- wait_for_completion
\* A direct call of wait_for_completion() (the tests call it).
WaitCall(c) ==
    /\ callers[c].pc = "idle"
    /\ callers' = [callers EXCEPT ![c].pc = "wfc_lock", ![c].op = "wait",
                                  ![c].ret = MsgPending]
    /\ UNCHANGED shared

\* reorder.lock(), at the call or when wait() takes the mutex again
\* (lines 383, 390).
WfcLock(c) ==
    /\ callers[c].pc = "wfc_lock"
    /\ lock = NoOwner
    /\ lock' = CallerOwner(c)
    /\ callers' = [callers EXCEPT ![c].pc = "wfc_check"]
    /\ UNCHANGED <<io, buffer, base_seq, next_seq, has_error, generation, tasks, spawned, failed, delivered>>

\* What wait_for_completion returns to: the test, or the scan at an END
\* record, where `?` returns the error and Ok goes on (lines 279-281).
WfcReturn(c, r) ==
    IF callers[c].op = "wait" \/ IsErr(r) THEN Return(c, r) ELSE Continue(c)

\* Mutant: `if` for `while`, the caller does not wait for a non-empty buffer.
WfcDecide_NoWait(buf, err) ==
    IF err THEN MsgWaitError ELSE MsgOk

\* Mutant: no check of has_error after the loop.
WfcDecide_NoFinalCheck(buf, err) ==
    IF buf # <<>>
    THEN IF err THEN MsgWaitError ELSE "wait"
    ELSE MsgOk

\* Mutant: the error returned is that of the handler.
WfcDecide_HandlerError(buf, err) ==
    IF buf # <<>>
    THEN IF err THEN MsgUnknown ELSE "wait"
    ELSE IF err THEN MsgUnknown ELSE MsgOk

\* One evaluation of the loop condition and of has_error (lines 385-397):
\* wait, or the value returned.
WfcDecide(buf, err) ==
    IF buf # <<>>
    THEN IF err THEN MsgWaitError ELSE "wait"
    ELSE IF err THEN MsgWaitError ELSE MsgOk

\* Mutant: the error is taken (swap(false)) when it is returned.
WfcCheck_TakesError(c) ==
    /\ callers[c].pc = "wfc_check"
    /\ lock = CallerOwner(c)
    /\ LET r == WfcDecide(buffer, has_error)
       IN  IF r = "wait"
           THEN /\ callers' = [callers EXCEPT ![c].pc = "wfc_wait"]
                /\ lock' = lock
                /\ has_error' = has_error
           ELSE /\ callers' = WfcReturn(c, r)
                /\ lock' = NoOwner
                /\ has_error' = FALSE
    /\ UNCHANGED <<io, buffer, base_seq, next_seq, generation, tasks, spawned, failed, delivered>>

\* A turn of the loop of wait_for_completion, holding the mutex: go to
\* wait(), or unlock and return (lines 385-398).
WfcCheck(c) ==
    /\ callers[c].pc = "wfc_check"
    /\ lock = CallerOwner(c)
    /\ LET r == WfcDecide(buffer, has_error)
       IN  IF r = "wait"
           THEN /\ callers' = [callers EXCEPT ![c].pc = "wfc_wait"]
                /\ lock' = lock
           ELSE /\ callers' = WfcReturn(c, r)
                /\ lock' = NoOwner
    /\ UNCHANGED <<io, buffer, base_seq, next_seq, has_error, generation, tasks, spawned, failed, delivered>>

\* buffer_empty.wait(reorder): release the mutex and block (line 390).
WfcWait(c) ==
    /\ callers[c].pc = "wfc_wait"
    /\ lock = CallerOwner(c)
    /\ lock' = NoOwner
    /\ callers' = [callers EXCEPT ![c].pc = "wfc_blocked"]
    /\ UNCHANGED <<io, buffer, base_seq, next_seq, has_error, generation, tasks, spawned, failed, delivered>>

\* Condvar::wait may return without a notification.
WfcSpurious(c) ==
    /\ callers[c].pc = "wfc_blocked"
    /\ callers' = [callers EXCEPT ![c].pc = "wfc_lock"]
    /\ UNCHANGED shared

\* ------------------------------------------------------------ pool tasks
Running == {t \in tasks : t.pc # "queued"}

\* The closure returns.
Finish(t) == tasks \ {t}

\* The closure goes on to `pc`.
Goto(t, pc) == (tasks \ {t}) \cup {[t EXCEPT !.pc = pc]}

\* Mutant: the closure without its first check of has_error.
TaskStart_NoCheck(t) ==
    /\ t.pc = "queued"
    /\ Cardinality(Running) < NumThreads
    /\ LET result == process_hint(t.base_type, t.data)
       IN  /\ tasks' = (tasks \ {t}) \cup
                           {[t EXCEPT !.pc = "computed", !.result = result]}
           /\ failed' = IF result.ok THEN failed ELSE failed \cup {Tag(t)}
    /\ UNCHANGED <<io, buffer, base_seq, next_seq, has_error, generation, lock,
                   callers, spawned, delivered>>

\* A pool thread takes the closure: the first check of has_error, then the
\* handler, outside the mutex (lines 299-308).
TaskStart(t) ==
    /\ t.pc = "queued"
    /\ Cardinality(Running) < NumThreads
    /\ IF has_error
       THEN /\ tasks' = Finish(t)
            /\ failed' = failed
       ELSE LET result == process_hint(t.base_type, t.data)
            IN  /\ tasks' = (tasks \ {t}) \cup
                                {[t EXCEPT !.pc = "computed", !.result = result]}
                /\ failed' = IF result.ok THEN failed ELSE failed \cup {Tag(t)}
    /\ UNCHANGED <<io, buffer, base_seq, next_seq, has_error, generation, lock,
                   callers, spawned, delivered>>

\* `generation != current_gen` (lines 314-318).
IsStale(t) == t.generation # generation

\* `seq_id < base_seq` or `offset >= buffer.len()` (lines 321-329).
NoSlot(t) ==
    \/ t.seq_id < base_seq
    \/ t.seq_id - base_seq >= Len(buffer)

\* reorder.lock(), the generation check and the offset checks (lines 311-329).
TaskLock(t) ==
    /\ t.pc = "computed"
    /\ lock = NoOwner
    /\ IF IsStale(t) \/ NoSlot(t)
       THEN /\ tasks' = Finish(t)
            /\ lock' = NoOwner
       ELSE /\ tasks' = Goto(t, "locked")
            /\ lock' = TaskOwner(t.tid)
    /\ UNCHANGED <<io, buffer, base_seq, next_seq, has_error, generation, callers,
                   spawned, failed, delivered>>

\* Mutant: the drain loop takes every ready slot for an Ok one.
RECURSIVE OkPrefix_AnyReady(_)
OkPrefix_AnyReady(buf) ==
    IF buf # <<>> /\ buf[1].ready THEN 1 + OkPrefix_AnyReady(Tail(buf)) ELSE 0

\* The number of Some(Ok(_)) slots at the front of buf.
RECURSIVE OkPrefix(_)
OkPrefix(buf) ==
    IF buf # <<>> /\ buf[1].ready /\ buf[1].ok THEN 1 + OkPrefix(Tail(buf)) ELSE 0

\* Mutant: the result is stored in the front slot.
StoreResult_AtFront(buf, offset, t) == [buf EXCEPT ![1] = Some(t.result, t)]

\* `reorder.buffer[offset] = Some(result)` (line 336).
StoreResult(buf, offset, t) == [buf EXCEPT ![offset + 1] = Some(t.result, t)]

\* Mutant: one pop_front for the whole run of Ok results handed on.
Drained_PopsOne(buf, k) == IF k > 0 THEN Tail(buf) ELSE buf

\* What the k pop_front() of the Ok iterations leave (line 342).
Drained(buf, k) == SubSeq(buf, k + 1, Len(buf))

\* History: the slot popped as Ok when base_seq was `at`.
Delivery(slot, at) ==
    [tid |-> slot.by.tid, generation |-> slot.by.generation,
     seq_id |-> slot.by.seq_id, at |-> at, during |-> generation]

\* The second check of has_error, holding the mutex (lines 331-334): with
\* the flag set the closure unlocks and returns.
TaskRecheck(t) ==
    /\ t.pc = "locked"
    /\ lock = TaskOwner(t.tid)
    /\ IF has_error
       THEN /\ tasks' = Finish(t)
            /\ lock' = NoOwner
       ELSE /\ tasks' = Goto(t, "checked")
            /\ lock' = lock
    /\ UNCHANGED <<io, buffer, base_seq, next_seq, has_error, generation, callers,
                   spawned, failed, delivered>>

\* The store and the Ok iterations of the drain loop (lines 336-346); with
\* no Err at the front, the final notify_all and the unlock (lines 361-365).
TaskStore(t) ==
    /\ t.pc = "checked"
    /\ lock = TaskOwner(t.tid)
    /\ LET stored == StoreResult(buffer, t.seq_id - base_seq, t)
           k == OkPrefix(stored)
           rest == Drained(stored, k)
       IN  /\ buffer' = rest
           /\ base_seq' = base_seq + k
           /\ delivered' = delivered \o
                  [i \in 1..k |-> Delivery(stored[i], base_seq + i - 1)]
           /\ IF rest # <<>> /\ rest[1].ready
              THEN /\ tasks' = Goto(t, "drain_err")
                   /\ lock' = lock
                   /\ callers' = callers
              ELSE /\ tasks' = Finish(t)
                   /\ lock' = NoOwner
                   /\ callers' = IF rest = <<>> THEN notify_all(callers) ELSE callers
    /\ UNCHANGED <<io, next_seq, has_error, generation, spawned, failed>>

\* Mutant: the Err iteration of the drain loop without has_error.store(true).
TaskDrainErr_NoFlag(t) ==
    /\ t.pc = "drain_err"
    /\ lock = TaskOwner(t.tid)
    /\ buffer' = Tail(buffer)
    /\ base_seq' = base_seq + 1
    /\ callers' = notify_all(callers)
    /\ lock' = NoOwner
    /\ tasks' = Finish(t)
    /\ UNCHANGED <<io, next_seq, has_error, generation, spawned, failed, delivered>>

\* The Err iteration of the drain loop: has_error.store(true), pop_front,
\* base_seq += 1, notify_all, break; then the final notify_all and the
\* unlock (lines 347-365).
TaskDrainErr(t) ==
    /\ t.pc = "drain_err"
    /\ lock = TaskOwner(t.tid)
    /\ has_error' = TRUE
    /\ buffer' = Tail(buffer)
    /\ base_seq' = base_seq + 1
    /\ callers' = notify_all(callers)
    /\ lock' = NoOwner
    /\ tasks' = Finish(t)
    /\ UNCHANGED <<io, next_seq, generation, spawned, failed, delivered>>

\* ---------------------------------------------------------- specification
CallerStep(c) ==
    \/ \E recs \in RecSeqs : PHEntry(c, recs)
    \/ PHDone(c)
    \/ PHRecord(c)
    \/ PHCancel(c)
    \/ PHError(c)
    \/ PHReserve(c)
    \/ PHPush(c)
    \/ ResetCall(c)
    \/ ResetError(c)
    \/ ResetSeq(c)
    \/ ResetGeneration(c)
    \/ ResetClear(c)
    \/ WaitCall(c)
    \/ WfcLock(c)
    \/ WfcCheck(c)
    \/ WfcWait(c)
    \/ WfcSpurious(c)

Next ==
    \/ \E c \in Callers : CallerStep(c)
    \/ \E t \in tasks : TaskStart(t)
    \/ \E t \in tasks : TaskLock(t)
    \/ \E t \in tasks : TaskRecheck(t)
    \/ \E t \in tasks : TaskStore(t)
    \/ \E t \in tasks : TaskDrainErr(t)

Spec == Init /\ [][Next]_vars

\* Scheduling. A thread inside a call goes on running, and a pool thread
\* that has a closure goes on running it (weak fairness of each step that
\* needs no mutex). A thread blocked in Mutex::lock gets the mutex when it is
\* released again and again (strong fairness of the steps that start with
\* reorder.lock()). Nothing obliges the caller to start a call, and nothing
\* obliges Condvar::wait to wake up without a notification.
CallerRuns(c) ==
    \/ PHDone(c) \/ PHRecord(c) \/ PHCancel(c) \/ PHError(c) \/ PHPush(c)
    \/ ResetError(c) \/ ResetSeq(c) \/ ResetGeneration(c)
    \/ WfcCheck(c) \/ WfcWait(c)

CallerLocks(c) == PHReserve(c) \/ ResetClear(c) \/ WfcLock(c)

Fairness ==
    /\ \A c \in Callers : WF_vars(CallerRuns(c)) /\ SF_vars(CallerLocks(c))
    /\ WF_vars(\E t \in tasks : TaskStart(t))
    /\ SF_vars(\E t \in tasks : TaskLock(t))
    /\ WF_vars(\E t \in tasks : TaskRecheck(t))
    /\ WF_vars(\E t \in tasks : TaskStore(t))
    /\ WF_vars(\E t \in tasks : TaskDrainErr(t))

FairSpec == Spec /\ Fairness

\* One stream without directives other than END: the caller dispatches data
\* hints (with or without a handler), waits at END records and calls
\* wait_for_completion, under the same scheduling.
LiveKinds == {RecResult, RecUnknown, RecEnd}

LiveSeqs == UNION {[1..n -> LiveKinds] : n \in 0..MaxRecs}

LiveCallerStep(c) ==
    \/ \E recs \in LiveSeqs : PHEntry(c, recs)
    \/ PHDone(c)
    \/ PHRecord(c)
    \/ PHReserve(c)
    \/ PHPush(c)
    \/ WaitCall(c)
    \/ WfcLock(c)
    \/ WfcCheck(c)
    \/ WfcWait(c)
    \/ WfcSpurious(c)

LiveNext ==
    \/ \E c \in Callers : LiveCallerStep(c)
    \/ \E t \in tasks : TaskStart(t)
    \/ \E t \in tasks : TaskLock(t)
    \/ \E t \in tasks : TaskRecheck(t)
    \/ \E t \in tasks : TaskStore(t)
    \/ \E t \in tasks : TaskDrainErr(t)

LiveSpec == Init /\ [][LiveNext]_vars /\ Fairness

\* Repeated streams START, valid data hints, END, as test_stress_with_resets
\* sends them: a START is the first record of a buffer or follows an END in
\* it, and a buffer that begins with START is sent when the stream before
\* it has ended (its END returned, so nothing is in the buffer or in flight).
StreamKinds == {RecStart, RecResult, RecEnd}

StreamLen == MaxRecs + 1

WellFormed(recs) ==
    \A i \in DOMAIN recs : (i > 1 /\ recs[i] = RecStart) => recs[i - 1] = RecEnd

StreamSeqs ==
    {recs \in UNION {[1..n -> StreamKinds] : n \in 0..StreamLen} : WellFormed(recs)}

StreamEnded == buffer = <<>> /\ tasks = {}

StreamEntry(c, recs) ==
    /\ (recs # <<>> /\ recs[1] = RecStart) => StreamEnded
    /\ PHEntry(c, recs)

StreamCallerStep(c) ==
    \/ \E recs \in StreamSeqs : StreamEntry(c, recs)
    \/ PHDone(c)
    \/ PHRecord(c)
    \/ PHReserve(c)
    \/ PHPush(c)
    \/ ResetError(c)
    \/ ResetSeq(c)
    \/ ResetGeneration(c)
    \/ ResetClear(c)
    \/ WfcLock(c)
    \/ WfcCheck(c)
    \/ WfcWait(c)
    \/ WfcSpurious(c)

StreamNext ==
    \/ \E c \in Callers : StreamCallerStep(c)
    \/ \E t \in tasks : TaskStart(t)
    \/ \E t \in tasks : TaskLock(t)
    \/ \E t \in tasks : TaskRecheck(t)
    \/ \E t \in tasks : TaskStore(t)

StreamSpec == Init /\ [][StreamNext]_vars

\* Two threads share the processor (its methods take &self): thread 1
\* dispatches valid data hints, thread 2 sends a START record, whose reset()
\* runs alongside.
Threads == {1, 2}

RaceSeqs(c) ==
    IF c = 1 THEN UNION {[1..n -> {RecResult}] : n \in 1..MaxRecs}
    ELSE {<<RecStart>>}

RaceInit ==
    /\ buffer = <<>>
    /\ base_seq = 0
    /\ next_seq = 0
    /\ has_error = FALSE
    /\ generation = 0
    /\ lock = NoOwner
    /\ tasks = {}
    /\ callers = [c \in Threads |-> IdleCaller("none", MsgPending)]
    /\ spawned = 0
    /\ failed = {}
    /\ delivered = <<>>
    /\ IdleIo

RaceCallerStep(c) ==
    \/ \E recs \in RaceSeqs(c) : PHEntry(c, recs)
    \/ PHDone(c)
    \/ PHRecord(c)
    \/ PHReserve(c)
    \/ PHPush(c)
    \/ ResetError(c)
    \/ ResetSeq(c)
    \/ ResetGeneration(c)
    \/ ResetClear(c)

RaceNext ==
    \/ \E c \in Threads : RaceCallerStep(c)
    \/ \E t \in tasks : TaskStart(t)
    \/ \E t \in tasks : TaskLock(t)
    \/ \E t \in tasks : TaskRecheck(t)
    \/ \E t \in tasks : TaskStore(t)

RaceSpec == RaceInit /\ [][RaceNext]_vars

\* Two threads again: thread 1 dispatches valid data hints and waits for
\* them (at an END record or in wait_for_completion), thread 2 sends a CANCEL
\* or an ERROR record. The scheduling is that of Fairness, for both threads.
WakeSeqs(c) ==
    IF c = 1 THEN {<<RecResult>>, <<RecResult, RecEnd>>}
    ELSE {<<RecCancel>>, <<RecError>>}

WakeCallerStep(c) ==
    \/ \E recs \in WakeSeqs(c) : PHEntry(c, recs)
    \/ PHDone(c)
    \/ PHRecord(c)
    \/ PHCancel(c)
    \/ PHError(c)
    \/ PHReserve(c)
    \/ PHPush(c)
    \/ c = 1 /\ WaitCall(c)
    \/ WfcLock(c)
    \/ WfcCheck(c)
    \/ WfcWait(c)
    \/ WfcSpurious(c)

WakeNext ==
    \/ \E c \in Threads : WakeCallerStep(c)
    \/ \E t \in tasks : TaskStart(t)
    \/ \E t \in tasks : TaskLock(t)
    \/ \E t \in tasks : TaskRecheck(t)
    \/ \E t \in tasks : TaskStore(t)

WakeFairness ==
    /\ \A c \in Threads : WF_vars(CallerRuns(c)) /\ SF_vars(CallerLocks(c))
    /\ WF_vars(\E t \in tasks : TaskStart(t))
    /\ SF_vars(\E t \in tasks : TaskLock(t))
    /\ WF_vars(\E t \in tasks : TaskRecheck(t))
    /\ WF_vars(\E t \in tasks : TaskStore(t))

WakeSpec == RaceInit /\ [][WakeNext]_vars /\ WakeFairness

\* Records whose control byte is none of the four directives: 0
\* (STREAM_CTRL_NONE), 5 (the first value without a meaning) and 127 (the
\* largest with bit 31 of hint_type clear), over a base type with a handler
\* (RESULT, ECRECOVER) or without (999); the caller dispatches them and calls
\* wait_for_completion.
OtherCtrls == {STREAM_CTRL_NONE, 5, 127}

RecCtrl(ctrl, base_type) == <<make_header_with_ctrl(base_type, ctrl, 1), Payload>>

CtrlKinds ==
    {RecCtrl(ctrl, base_type) :
        ctrl \in OtherCtrls,
        base_type \in {HINTS_TYPE_RESULT, HINTS_TYPE_ECRECOVER, UnknownType}}

CtrlSeqs == UNION {[1..n -> CtrlKinds] : n \in 0..MaxRecs}

CtrlCallerStep(c) ==
    \/ \E recs \in CtrlSeqs : PHEntry(c, recs)
    \/ PHDone(c)
    \/ PHRecord(c)
    \/ PHReserve(c)
    \/ PHPush(c)
    \/ WaitCall(c)
    \/ WfcLock(c)
    \/ WfcCheck(c)
    \/ WfcWait(c)
    \/ WfcSpurious(c)

CtrlNext ==
    \/ \E c \in Callers : CtrlCallerStep(c)
    \/ \E t \in tasks : TaskStart(t)
    \/ \E t \in tasks : TaskLock(t)
    \/ \E t \in tasks : TaskRecheck(t)
    \/ \E t \in tasks : TaskStore(t)
    \/ \E t \in tasks : TaskDrainErr(t)

CtrlSpec == Init /\ [][CtrlNext]_vars

\* START and END records that carry a payload: one word that is itself the
\* header of a valid data hint of length 0, or, for RecStartShort and
\* RecEndShort, a length that no buffer has room for. The caller sends them
\* mixed with valid data hints.
PayloadWord == make_header(HINTS_TYPE_RESULT, 0)

RecStartL == <<make_header_with_ctrl(HINTS_TYPE_RESULT, STREAM_CTRL_START, 1), PayloadWord>>

RecEndL == <<make_header_with_ctrl(HINTS_TYPE_RESULT, STREAM_CTRL_END, 1), PayloadWord>>

RecStartShort ==
    <<make_header_with_ctrl(HINTS_TYPE_RESULT, STREAM_CTRL_START, 2 * MaxRecs), PayloadWord>>

RecEndShort ==
    <<make_header_with_ctrl(HINTS_TYPE_RESULT, STREAM_CTRL_END, 2 * MaxRecs), PayloadWord>>

PayloadKinds == {RecResult, RecStartL, RecEndL, RecStartShort, RecEndShort}

PayloadSeqs == UNION {[1..n -> PayloadKinds] : n \in 0..MaxRecs}

PayloadCallerStep(c) ==
    \/ \E recs \in PayloadSeqs : PHEntry(c, recs)
    \/ PHDone(c)
    \/ PHRecord(c)
    \/ PHReserve(c)
    \/ PHPush(c)
    \/ ResetError(c)
    \/ ResetSeq(c)
    \/ ResetGeneration(c)
    \/ ResetClear(c)
    \/ WfcLock(c)
    \/ WfcCheck(c)
    \/ WfcWait(c)
    \/ WfcSpurious(c)

PayloadNext ==
    \/ \E c \in Callers : PayloadCallerStep(c)
    \/ \E t \in tasks : TaskStart(t)
    \/ \E t \in tasks : TaskLock(t)
    \/ \E t \in tasks : TaskRecheck(t)
    \/ \E t \in tasks : TaskStore(t)

PayloadSpec == Init /\ [][PayloadNext]_vars

\* from_u64_slice on its own: any slice of up to MaxSliceLen words whose
\* headers announce 0 .. MaxSliceLen words, parsed at any index up to
\* MaxSliceLen (one past the end included), by a thread that does nothing
\* else. The slice and the index are in the caller's record, the result in
\* its field `hint`.
ParseWords ==
    {<<h, l>> : h \in {HINTS_TYPE_RESULT, RecStart[1][1]}, l \in 0..MaxSliceLen}

ParseSlices == UNION {[1..n -> ParseWords] : n \in 0..MaxSliceLen}

ParseInit ==
    /\ buffer = <<>>
    /\ base_seq = 0
    /\ next_seq = 0
    /\ has_error = FALSE
    /\ generation = 0
    /\ lock = NoOwner
    /\ tasks = {}
    /\ spawned = 0
    /\ failed = {}
    /\ delivered = <<>>
    /\ IdleIo
    /\ \E slice \in ParseSlices : \E idx \in 0..MaxSliceLen :
          callers = [c \in Callers |->
                        [IdleCaller("from_u64_slice", MsgPending)
                            EXCEPT !.pc = "parse", !.hints = slice, !.idx = idx]]

ParseStep(c) ==
    /\ callers[c].pc = "parse"
    /\ callers' = [callers EXCEPT
                      ![c].hint = from_u64_slice(callers[c].hints, callers[c].idx),
                      ![c].pc = "parsed"]
    /\ UNCHANGED shared

ParseNext == \E c \in Callers : ParseStep(c)

ParseSpec == ParseInit /\ [][ParseNext]_vars

\* The header helpers and the decode on their own: a thread builds a header
\* with make_header_with_ctrl from a (base_type, ctrl, length) and decodes it
\* as from_u64_slice (lines 112-114) and process_hints (lines 253-254) do.
\* The values are those a signed 32-bit integer holds: ctrl up to 127 (bit
\* 31 of hint_type clear), length up to 2^31 - 1.
CtrlValues == 0..127

BaseValues == {0, 1, 2, UnknownType, Pow2(16), Pow2(STREAM_CTRL_SHIFT) - 1}

LengthValues == {0, 1, 2, 2147483647}

DecodeInit ==
    /\ buffer = <<>>
    /\ base_seq = 0
    /\ next_seq = 0
    /\ has_error = FALSE
    /\ generation = 0
    /\ lock = NoOwner
    /\ tasks = {}
    /\ spawned = 0
    /\ failed = {}
    /\ delivered = <<>>
    /\ IdleIo
    /\ \E base_type \in BaseValues : \E ctrl \in CtrlValues : \E length \in LengthValues :
          callers = [c \in Callers |->
                        [pc |-> "encode", op |-> "make_header_with_ctrl",
                         args |-> [base_type |-> base_type, ctrl |-> ctrl,
                                   length |-> length],
                         header |-> <<0, 0>>,
                         decoded |-> [hint_type |-> 0, length |-> 0, ctrl |-> 0,
                                      base_type |-> 0]]]

EncodeStep(c) ==
    /\ callers[c].pc = "encode"
    /\ callers' = [callers EXCEPT
                      ![c].header = make_header_with_ctrl(callers[c].args.base_type,
                                                          callers[c].args.ctrl,
                                                          callers[c].args.length),
                      ![c].pc = "decode"]
    /\ UNCHANGED shared

DecodeStep(c) ==
    /\ callers[c].pc = "decode"
    /\ LET hint_type == callers[c].header[1]
           length == callers[c].header[2]
       IN  callers' = [callers EXCEPT
                         ![c].decoded = [hint_type |-> hint_type, length |-> length,
                                         ctrl |-> CtrlOf(hint_type),
                                         base_type |-> BaseOf(hint_type)],
                         ![c].pc = "decoded"]
    /\ UNCHANGED shared

DecodeNext == \E c \in Callers : EncodeStep(c) \/ DecodeStep(c)

DecodeSpec == DecodeInit /\ [][DecodeNext]_vars

\* ------------------------------------------- UnixSocketStream{Writer,Reader}
\* One writer, one reader and the accept thread the writer spawns, over a
\* SOCK_SEQPACKET connection: a send queues one message, a recv takes one.
\* The writer sends up to MaxMsgs items; every item is shorter than the
\* reader's 128 KiB buffer.
MaxMsgs == 2

Items == {<<>>, <<1>>, <<2>>, <<1, 2>>}

processor == <<buffer, base_seq, next_seq, has_error, generation, lock, tasks,
               callers, spawned, failed, delivered>>

\* StreamWrite::open: nothing to do with a connected socket; otherwise
\* create_listener (bind, listen) unless there is a listener, and spawn the
\* accept thread with its channel unless there is one. It waits for nothing.
WriterOpened(w) ==
    IF w.socket THEN w
    ELSE [w EXCEPT !.listener_fd = TRUE, !.socket_receiver = TRUE,
                   !.accept_thread = TRUE]

KernelOpened(w, k) ==
    IF w.socket THEN k
    ELSE [k EXCEPT !.listening = IF w.listener_fd THEN @ ELSE TRUE,
                   !.accept = IF w.accept_thread THEN @ ELSE "blocked",
                   !.tx_alive = IF w.accept_thread THEN @ ELSE TRUE]

WriterOpen ==
    /\ writer.op # "close"
    /\ writer' = [WriterOpened(writer) EXCEPT !.op = "open", !.ret = "Ok"]
    /\ kernel' = KernelOpened(writer, kernel)
    /\ UNCHANGED <<processor, reader, written, received, hints_shmem, hb>>

\* Receiver::try_recv on the accept thread's channel.
try_recv(k) ==
    IF k.in_channel THEN "Ok"
    ELSE IF k.tx_alive THEN "Empty"
    ELSE "Disconnected"

\* UnixSocketStreamWriter::is_client_connected
WriterIsClientConnected ==
    /\ writer.op # "close"
    /\ IF writer.socket
       THEN /\ writer' = [writer EXCEPT !.op = "is_client_connected", !.ret = "true"]
            /\ UNCHANGED kernel
       ELSE IF writer.socket_receiver /\ try_recv(kernel) = "Ok"
       THEN /\ writer' = [writer EXCEPT !.op = "is_client_connected", !.ret = "true",
                                        !.socket = TRUE]
            /\ kernel' = [kernel EXCEPT !.in_channel = FALSE]
       ELSE /\ writer' = [writer EXCEPT !.op = "is_client_connected", !.ret = "false"]
            /\ UNCHANGED kernel
    /\ UNCHANGED <<processor, reader, written, received, hints_shmem, hb>>

\* Mutant: an empty channel does not stop the write.
write_result_IgnoresEmpty(w, k, item) ==
    IF ~w.socket /\ w.socket_receiver /\ try_recv(k) = "Disconnected"
    THEN "AcceptTerminated"
    ELSE IF ~w.socket /\ ~(w.socket_receiver /\ try_recv(k) = "Ok") THEN "NotConnected"
    ELSE IF item # <<>> /\ k.client # "open" THEN "WriteFailed"
    ELSE "Ok"

\* The result of write on the opened writer w: the channel is asked for the
\* socket when the writer has none, then write_all sends the item, which
\* fails (EPIPE) when the reader's end is closed. write_all of an empty item
\* makes no system call.
write_result(w, k, item) ==
    IF ~w.socket /\ w.socket_receiver /\ try_recv(k) = "Empty"
    THEN "NoClientConnected"
    ELSE IF ~w.socket /\ w.socket_receiver /\ try_recv(k) = "Disconnected"
    THEN "AcceptTerminated"
    ELSE IF ~w.socket /\ ~(w.socket_receiver /\ try_recv(k) = "Ok") THEN "NotConnected"
    ELSE IF item # <<>> /\ k.client # "open" THEN "WriteFailed"
    ELSE "Ok"

\* StreamWrite::write
WriterWrite(item) ==
    /\ writer.op # "close"
    /\ Len(written) < MaxMsgs
    /\ LET w == WriterOpened(writer)
           k == KernelOpened(writer, kernel)
           r == write_result(w, k, item)
           taken == ~w.socket /\ w.socket_receiver /\ try_recv(k) = "Ok"
       IN  /\ writer' = [w EXCEPT !.op = "write", !.ret = r,
                                  !.n = IF r = "Ok" THEN Len(item) ELSE @,
                                  !.socket = @ \/ taken]
           /\ kernel' = [k EXCEPT !.in_channel = @ /\ ~taken,
                                  !.queue = IF r = "Ok" /\ item # <<>>
                                            THEN Append(@, item) ELSE @]
           /\ written' = IF r = "Ok" THEN Append(written, item) ELSE written
    /\ UNCHANGED <<processor, reader, received, hints_shmem, hb>>

\* StreamWrite::close: the connected socket is dropped, the listener closed
\* and the socket file removed. The accept thread and the channel stay.
WriterClose ==
    /\ writer.op # "close"
    /\ writer' = [writer EXCEPT !.op = "close", !.ret = "Ok", !.socket = FALSE,
                                !.listener_fd = FALSE]
    /\ kernel' = [kernel EXCEPT !.listening = FALSE,
                                !.server = IF writer.socket THEN "closed" ELSE @]
    /\ UNCHANGED <<processor, reader, written, received, hints_shmem, hb>>

\* The accept thread: libc::accept returns the waiting connection ...
AcceptReturn ==
    /\ kernel.accept = "blocked"
    /\ kernel.pending
    /\ kernel' = [kernel EXCEPT !.accept = "accepted", !.pending = FALSE,
                                !.server = "open"]
    /\ UNCHANGED <<processor, writer, reader, written, received, hints_shmem, hb>>

\* ... and tx.send(stream) puts it in the channel; the thread returns.
AcceptSend ==
    /\ kernel.accept = "accepted"
    /\ kernel' = [kernel EXCEPT !.accept = "exited", !.in_channel = TRUE,
                                !.tx_alive = FALSE]
    /\ UNCHANGED <<processor, writer, reader, written, received, hints_shmem, hb>>

\* connect_socket: libc::connect succeeds on a listening socket.
CanConnect(k) == k.listening /\ ~k.pending /\ k.client = "none"

Connected(k) == [k EXCEPT !.pending = TRUE, !.client = "open"]

\* StreamRead::open
ReaderOpen ==
    /\ reader.op # "close"
    /\ reader.pc = "idle"
    /\ IF reader.socket
       THEN /\ reader' = [reader EXCEPT !.op = "open", !.ret = "Ok"]
            /\ UNCHANGED kernel
       ELSE IF CanConnect(kernel)
       THEN /\ reader' = [reader EXCEPT !.op = "open", !.ret = "Ok", !.socket = TRUE]
            /\ kernel' = Connected(kernel)
       ELSE /\ reader' = [reader EXCEPT !.op = "open", !.ret = "ConnectFailed"]
            /\ UNCHANGED kernel
    /\ UNCHANGED <<processor, writer, written, received, hints_shmem, hb>>

\* StreamRead::next up to libc::recv: self.open()?.
ReaderNext ==
    /\ reader.op # "close"
    /\ reader.pc = "idle"
    /\ Len(received) <= MaxMsgs
    /\ IF reader.socket
       THEN /\ reader' = [reader EXCEPT !.op = "next", !.pc = "recv"]
            /\ UNCHANGED <<kernel, received>>
       ELSE IF CanConnect(kernel)
       THEN /\ reader' = [reader EXCEPT !.op = "next", !.pc = "recv", !.socket = TRUE]
            /\ kernel' = Connected(kernel)
            /\ UNCHANGED received
       ELSE /\ reader' = [reader EXCEPT !.op = "next", !.ret = "ConnectFailed"]
            /\ received' = Append(received, [ret |-> "Err", msg |-> <<>>])
            /\ UNCHANGED kernel
    /\ UNCHANGED <<processor, writer, written, hints_shmem, hb>>

\* libc::recv on the SOCK_SEQPACKET socket: the first message queued, or 0
\* once the writer's end is closed and nothing is queued.
recv(k) ==
    IF k.queue # <<>>
    THEN [n |-> Len(Head(k.queue)), msg |-> Head(k.queue), rest |-> Tail(k.queue)]
    ELSE [n |-> 0, msg |-> <<>>, rest |-> <<>>]

\* StreamRead::next from libc::recv on: blocked while nothing is queued and
\* the writer's end is open.
ReaderRecv ==
    /\ reader.pc = "recv"
    /\ kernel.queue # <<>> \/ kernel.server = "closed"
    /\ LET r == recv(kernel)
       IN  IF r.n = 0
           THEN /\ reader' = [reader EXCEPT !.pc = "idle", !.ret = "None"]
                /\ received' = Append(received, [ret |-> "None", msg |-> <<>>])
                /\ UNCHANGED kernel
           ELSE /\ reader' = [reader EXCEPT !.pc = "idle", !.ret = "Some"]
                /\ received' = Append(received, [ret |-> "Some", msg |-> r.msg])
                /\ kernel' = [kernel EXCEPT !.queue = r.rest]
    /\ UNCHANGED <<processor, writer, written, hints_shmem, hb>>

\* StreamRead::close
ReaderClose ==
    /\ reader.op # "close"
    /\ reader.pc = "idle"
    /\ reader' = [reader EXCEPT !.op = "close", !.ret = "Ok", !.socket = FALSE]
    /\ kernel' = [kernel EXCEPT !.client = IF reader.socket THEN "closed" ELSE @]
    /\ UNCHANGED <<processor, writer, written, received, hints_shmem, hb>>

SocketNext ==
    \/ WriterOpen
    \/ WriterIsClientConnected
    \/ \E item \in Items : WriterWrite(item)
    \/ WriterClose
    \/ AcceptReturn
    \/ AcceptSend
    \/ ReaderOpen
    \/ ReaderNext
    \/ ReaderRecv
    \/ ReaderClose

SocketSpec == Init /\ [][SocketNext]_vars

\* ------------------------------------------------------------- HintsShmem
\* A HintsShmem built from any list of up to MaxNames names (repetitions
\* included), then add_shmem_name and submit in any order. A
\* SharedMemoryWriter is modelled by the name it was created for, and its
\* creation and write_input succeed.
MaxNames == 3

ShmemNames == {"a", "b", "c"}

NameLists == UNION {[1..n -> ShmemNames] : n \in 0..MaxNames}

Contains(names, name) == \E i \in DOMAIN names : names[i] = name

IdleProcessor ==
    /\ buffer = <<>>
    /\ base_seq = 0
    /\ next_seq = 0
    /\ has_error = FALSE
    /\ generation = 0
    /\ lock = NoOwner
    /\ tasks = {}
    /\ callers = [c \in Callers |-> IdleCaller("none", MsgPending)]
    /\ spawned = 0
    /\ failed = {}
    /\ delivered = <<>>

ShmemInit ==
    /\ IdleProcessor
    /\ writer = NewWriter
    /\ reader = NewReader
    /\ kernel = NoKernel
    /\ written = <<>>
    /\ received = <<>>
    /\ \E shmem_names \in NameLists : hints_shmem = NewHintsShmem(shmem_names)
    /\ IdleHb

\* Mutant: the name is pushed without looking for it in the list.
add_shmem_name_NoContains(h, name) ==
    IF h.shmem_writers # <<>>
    THEN [h EXCEPT !.op = "add_shmem_name", !.ret = "Err"]
    ELSE [h EXCEPT !.op = "add_shmem_name", !.ret = "Ok",
                   !.shmem_names = Append(@, name)]

\* HintsShmem::add_shmem_name
add_shmem_name(h, name) ==
    IF h.shmem_writers # <<>>
    THEN [h EXCEPT !.op = "add_shmem_name", !.ret = "Err"]
    ELSE IF Contains(h.shmem_names, name)
    THEN [h EXCEPT !.op = "add_shmem_name", !.ret = "Ok"]
    ELSE [h EXCEPT !.op = "add_shmem_name", !.ret = "Ok",
                   !.shmem_names = Append(@, name)]

AddShmemName(name) ==
    /\ hints_shmem' = add_shmem_name(hints_shmem, name)
    /\ UNCHANGED <<processor, writer, reader, kernel, written, received, hb>>

\* HintsShmem::is_initialized
is_initialized(h) == h.shmem_writers # <<>>

\* HintsShmem::initialize: one writer per name, unless there are writers.
initialize(h) ==
    IF h.shmem_writers # <<>> THEN h
    ELSE [h EXCEPT !.shmem_writers = h.shmem_names]

\* HintsSink::submit: initialize when not initialized, then write_input on
\* every writer.
Submit ==
    /\ hints_shmem' =
          [(IF is_initialized(hints_shmem) THEN hints_shmem
            ELSE initialize(hints_shmem))
              EXCEPT !.op = "submit", !.ret = "Ok"]
    /\ UNCHANGED <<processor, writer, reader, kernel, written, received, hb>>

ShmemNext ==
    \/ \E name \in ShmemNames : AddShmemName(name)
    \/ Submit

ShmemSpec == ShmemInit /\ [][ShmemNext]_vars

\* ------------------------------------------------------------ HintBuffer
\* ziskos hints/hint_buffer.rs. The queue holds one Vec<u8> per hint; a
\* byte is a number in 0..255. DEBUG_HINTS_REF and DEBUG_HINTS_FILE are
\* unset: ref_verify stays None and drain_to_writer has no debug file.

\* MAX_WRITER_LEN is 128 * 1024 in the source; it is scaled down to the
\* length of two of the shortest hints so that a hint can be longer.
MAX_WRITER_LEN == 16

\* Bound on the hints one behaviour pushes.
MaxHints == 3

HintIds == {5}
HintData == {<<>>, <<7, 7, 7>>, <<9, 9, 9, 9, 9, 9, 9, 9, 9>>}

\* u32::to_le_bytes
le_bytes32(v) ==
    <<v % 256, (v \div 256) % 256, (v \div 65536) % 256,
      (v \div 16777216) % 256>>

\* HintBuffer::build_header_u64: hi = (hint_id & 0x7FFF_FFFF) with bit 31
\* set for a result, the low half is the length. The u64 is kept as its
\* fields: hi31 is hi without bit 31, result is bit 31.
build_header_u64(hint_id, len, is_result) ==
    [hi31 |-> ((hint_id \div 16777216) % 128) * 16777216
              + (hint_id % 16777216),
     result |-> is_result,
     len32 |-> len]

\* u64::to_le_bytes of a header: the length first, then hi.
to_le_bytes(header) ==
    le_bytes32(header.len32) \o
    <<header.hi31 % 256, (header.hi31 \div 256) % 256,
      (header.hi31 \div 65536) % 256,
      (header.hi31 \div 16777216) + (IF header.result THEN 128 ELSE 0)>>

\* HintBuffer::pad8
pad8(len) == (8 - (len % 8)) % 8

Zeros(n) == [i \in 1..n |-> 0]

\* The Vec<u8> write_hint_segments builds in g.cur: header, segments, pad.
HintBytes(hint_id, data, is_result) ==
    to_le_bytes(build_header_u64(hint_id, Len(data), is_result)) \o data \o
    Zeros(pad8(Len(data)))

\* Condvar::notify_one / notify_all with the one thread that ever waits.
Notified(d) == IF d.pc = "blocked" THEN [d EXCEPT !.pc = "lock"] ELSE d

others == <<processor, writer, reader, kernel, written, received, hints_shmem>>

\* HintBuffer::close
HintBufferClose ==
    /\ hint_buffer' = [queue |-> <<>>, closed |-> TRUE, paused |-> TRUE]
    /\ drainer' = Notified(drainer)
    /\ UNCHANGED <<others, sink, guest>>

\* HintBuffer::reset
HintBufferReset ==
    /\ hint_buffer' = [queue |-> <<>>, closed |-> FALSE, paused |-> FALSE]
    /\ drainer' = Notified(drainer)
    /\ UNCHANGED <<others, sink, guest>>

\* HintBuffer::pause
HintBufferPause ==
    /\ hint_buffer' = [hint_buffer EXCEPT !.paused = TRUE]
    /\ UNCHANGED <<others, drainer, sink, guest>>

\* HintBuffer::resume
HintBufferResume ==
    /\ hint_buffer' = [hint_buffer EXCEPT !.paused = FALSE]
    /\ UNCHANGED <<others, drainer, sink, guest>>

\* HintBuffer::is_enabled
is_enabled(g) == ~g.paused /\ ~g.closed

\* write_hint_segments, its first statement: return unless is_enabled().
\* is_enabled takes and releases the mutex on its own.
WriteHintCheck(hint_id, data, is_result) ==
    /\ guest.pc = "idle"
    /\ Len(guest.pushed) < MaxHints
    /\ guest' = IF is_enabled(hint_buffer)
                THEN [guest EXCEPT !.pc = "emit", !.hint_id = hint_id,
                                   !.data = data, !.result = is_result]
                ELSE guest
    /\ UNCHANGED <<others, hint_buffer, drainer, sink>>

\* write_hint_segments under the mutex: build the hint, push_back, unlock.
WriteHintPush ==
    /\ guest.pc = "emit"
    /\ LET hint == HintBytes(guest.hint_id, guest.data, guest.result)
       IN  /\ hint_buffer' = [hint_buffer EXCEPT !.queue = Append(@, hint)]
           /\ guest' = [guest EXCEPT !.pc = "notify",
                                     !.pushed = Append(@, hint)]
    /\ UNCHANGED <<others, drainer, sink>>

\* write_hint_segments, its last statement: not_empty.notify_one().
WriteHintNotify ==
    /\ guest.pc = "notify"
    /\ guest' = [guest EXCEPT !.pc = "idle"]
    /\ drainer' = Notified(drainer)
    /\ UNCHANGED <<others, hint_buffer, sink>>

\* The writer starts to fail (the peer is gone, the disk is full).
SinkBreak ==
    /\ ~sink.broken
    /\ sink' = [sink EXCEPT !.broken = TRUE]
    /\ UNCHANGED <<others, hint_buffer, drainer, guest>>

\* drain_to_writer is called: out_buf is empty.
DrainStart ==
    /\ drainer.pc = "none"
    /\ drainer' = [drainer EXCEPT !.pc = "lock"]
    /\ UNCHANGED <<others, hint_buffer, sink, guest>>

\* drain_to_writer with the mutex: wait while the queue is empty and the
\* buffer is open (the wait gives the mutex back); None when the queue is
\* empty and the buffer closed; otherwise pop_front.
DrainLock ==
    /\ drainer.pc = "lock"
    /\ LET g == hint_buffer
       IN  IF g.queue = <<>> /\ ~g.closed
           THEN /\ drainer' = [drainer EXCEPT !.pc = "blocked"]
                /\ UNCHANGED hint_buffer
           ELSE IF g.queue = <<>> /\ g.closed
           THEN /\ drainer' = [drainer EXCEPT !.pc = "finish"]
                /\ UNCHANGED hint_buffer
           ELSE /\ drainer' = [drainer EXCEPT
                                 !.pc = "got",
                                 !.hint_bytes = Head(g.queue),
                                 !.popped = Append(@, Head(g.queue))]
                /\ hint_buffer' = [g EXCEPT !.queue = Tail(@)]
    /\ UNCHANGED <<others, sink, guest>>

\* Condvar::wait may return without a notification.
DrainSpurious ==
    /\ drainer.pc = "blocked"
    /\ drainer' = [drainer EXCEPT !.pc = "lock"]
    /\ UNCHANGED <<others, hint_buffer, sink, guest>>

\* Mutant: the pending output buffer is dropped at the end.
DrainFinish_NoFlush ==
    /\ drainer.pc = "finish"
    /\ drainer' = [drainer EXCEPT !.pc = "done", !.ret = "Ok",
                                  !.out_buf = <<>>]
    /\ UNCHANGED <<others, hint_buffer, sink, guest>>

\* drain_to_writer after None: write the pending out_buf, return Ok(()).
DrainFinish ==
    /\ drainer.pc = "finish"
    /\ IF drainer.out_buf = <<>>
       THEN /\ drainer' = [drainer EXCEPT !.pc = "done", !.ret = "Ok"]
            /\ UNCHANGED sink
       ELSE IF sink.broken
       THEN /\ drainer' = [drainer EXCEPT !.pc = "done", !.ret = "Err"]
            /\ UNCHANGED sink
       ELSE /\ sink' = [sink EXCEPT !.chunks = Append(@, drainer.out_buf)]
            /\ drainer' = [drainer EXCEPT !.pc = "done", !.ret = "Ok",
                                          !.out_buf = <<>>]
    /\ UNCHANGED <<others, hint_buffer, guest>>

\* The MAX_WRITER_LEN parts of a hint longer than MAX_WRITER_LEN.
RECURSIVE Parts(_)
Parts(bytes) ==
    IF bytes = <<>> THEN <<>>
    ELSE IF Len(bytes) <= MAX_WRITER_LEN THEN <<bytes>>
    ELSE <<SubSeq(bytes, 1, MAX_WRITER_LEN)>> \o
         Parts(SubSeq(bytes, MAX_WRITER_LEN + 1, Len(bytes)))

\* drain_to_writer after Some(hint_bytes): write out_buf first when the
\* hint does not fit behind it, then write a hint longer than
\* MAX_WRITER_LEN in parts, or append a shorter one to out_buf. The first
\* write_all that fails ends the call with its error.
DrainHint ==
    /\ drainer.pc = "got"
    /\ LET h == drainer.hint_bytes
           ob == drainer.out_buf
           flush == ob # <<>> /\ Len(ob) + Len(h) > MAX_WRITER_LEN
           large == Len(h) > MAX_WRITER_LEN
           writes == (IF flush THEN <<ob>> ELSE <<>>) \o
                     (IF large THEN Parts(h) ELSE <<>>)
           ob1 == IF flush THEN <<>> ELSE ob
       IN  IF writes # <<>> /\ sink.broken
           THEN /\ drainer' = [drainer EXCEPT !.pc = "done", !.ret = "Err"]
                /\ UNCHANGED sink
           ELSE /\ sink' = [sink EXCEPT !.chunks = @ \o writes]
                /\ drainer' = [drainer EXCEPT
                                 !.pc = "lock",
                                 !.hint_bytes = <<>>,
                                 !.out_buf = IF large THEN ob1 ELSE ob1 \o h]
    /\ UNCHANGED <<others, hint_buffer, guest>>

DrainNext ==
    \/ HintBufferReset
    \/ HintBufferClose
    \/ HintBufferPause
    \/ HintBufferResume
    \/ \E hint_id \in HintIds, data \in HintData, is_result \in BOOLEAN :
          WriteHintCheck(hint_id, data, is_result)
    \/ WriteHintPush
    \/ WriteHintNotify
    \/ SinkBreak
    \/ DrainStart
    \/ DrainLock
    \/ DrainSpurious
    \/ DrainHint
    \/ DrainFinish

\* Any thread may reset, close, pause and resume the buffer at any time.
DrainSpec == Init /\ [][DrainNext]_vars

\* ---------------------------------------------- the life of a hint stream
\* ziskos hints/mod.rs: init_hints_file / init_hints_socket call init_hints
\* (reset) and spawn the thread that runs drain_to_writer; the guest emits
\* hints; close_hints closes the buffer and joins the thread. guest.pc is
\* "join" inside handle.join() and "joined" after it. write_hint_start and
\* write_hint_end are not among the files of HintBuffer: whatever they
\* enqueue is one more hint of the guest, before the close.

\* init_hints: HINT_BUFFER.reset(), once, before the thread is spawned.
InitHints ==
    /\ guest.pc = "idle"
    /\ hint_buffer.closed
    /\ drainer.pc = "none"
    /\ HintBufferReset

\* The spawned thread gets to run write_hints: drain_to_writer is called.
WriterThreadRuns ==
    /\ ~hint_buffer.closed \/ guest.pc = "join"
    /\ DrainStart

\* close_hints: HINT_BUFFER.close(), then HINT_WRITER_HANDLE.take().
CloseHints ==
    /\ guest.pc = "idle"
    /\ ~hint_buffer.closed
    /\ hint_buffer' = [queue |-> <<>>, closed |-> TRUE, paused |-> TRUE]
    /\ drainer' = Notified(drainer)
    /\ guest' = [guest EXCEPT !.pc = "join"]
    /\ UNCHANGED <<others, sink>>

\* close_hints: handle.join() returns when the thread has returned.
JoinWriter ==
    /\ guest.pc = "join"
    /\ drainer.pc = "done"
    /\ guest' = [guest EXCEPT !.pc = "joined"]
    /\ UNCHANGED <<others, hint_buffer, drainer, sink>>

CloseNext ==
    \/ InitHints
    \/ WriterThreadRuns
    \/ \E hint_id \in HintIds, data \in HintData, is_result \in BOOLEAN :
          WriteHintCheck(hint_id, data, is_result)
    \/ WriteHintPush
    \/ WriteHintNotify
    \/ HintBufferPause
    \/ HintBufferResume
    \/ CloseHints
    \/ JoinWriter
    \/ DrainLock
    \/ DrainSpurious
    \/ DrainHint
    \/ DrainFinish

CloseSpec == Init /\ [][CloseNext]_vars

\* ------------------------------------------------------------- HintCode
\* common/src/hints.rs. A HintCode is Ctrl(CtrlCode) or BuiltIn(BuiltInHint);
\* it is kept as its variant and the name inside.
Ctrl(name) == [kind |-> "Ctrl", name |-> name]
BuiltIn(name) == [kind |-> "BuiltIn", name |-> name]
NoCode == [kind |-> "none", name |-> "none"]

MsgInvalidCode == "Invalid hint code"
MsgOutOfBounds == "Slice too short or index out of bounds"

\* Mutant: the arm of 0x0C is missing.
try_from_NoWMul(value) ==
    CASE value = 0 -> [ok |-> TRUE, code |-> Ctrl("Start")]
      [] value = 1 -> [ok |-> TRUE, code |-> Ctrl("End")]
      [] value = 2 -> [ok |-> TRUE, code |-> Ctrl("Cancel")]
      [] value = 3 -> [ok |-> TRUE, code |-> Ctrl("Error")]
      [] value = 4 -> [ok |-> TRUE, code |-> BuiltIn("Noop")]
      [] value = 5 -> [ok |-> TRUE, code |-> BuiltIn("EcRecover")]
      [] value = 6 -> [ok |-> TRUE, code |-> BuiltIn("RedMod256")]
      [] value = 7 -> [ok |-> TRUE, code |-> BuiltIn("AddMod256")]
      [] value = 8 -> [ok |-> TRUE, code |-> BuiltIn("MulMod256")]
      [] value = 9 -> [ok |-> TRUE, code |-> BuiltIn("DivRem256")]
      [] value = 10 -> [ok |-> TRUE, code |-> BuiltIn("WPow256")]
      [] value = 11 -> [ok |-> TRUE, code |-> BuiltIn("OMul256")]
      [] OTHER -> [ok |-> FALSE, code |-> NoCode]

\* impl TryFrom<u32> for HintCode
try_from(value) ==
    CASE value = 0 -> [ok |-> TRUE, code |-> Ctrl("Start")]
      [] value = 1 -> [ok |-> TRUE, code |-> Ctrl("End")]
      [] value = 2 -> [ok |-> TRUE, code |-> Ctrl("Cancel")]
      [] value = 3 -> [ok |-> TRUE, code |-> Ctrl("Error")]
      [] value = 4 -> [ok |-> TRUE, code |-> BuiltIn("Noop")]
      [] value = 5 -> [ok |-> TRUE, code |-> BuiltIn("EcRecover")]
      [] value = 6 -> [ok |-> TRUE, code |-> BuiltIn("RedMod256")]
      [] value = 7 -> [ok |-> TRUE, code |-> BuiltIn("AddMod256")]
      [] value = 8 -> [ok |-> TRUE, code |-> BuiltIn("MulMod256")]
      [] value = 9 -> [ok |-> TRUE, code |-> BuiltIn("DivRem256")]
      [] value = 10 -> [ok |-> TRUE, code |-> BuiltIn("WPow256")]
      [] value = 11 -> [ok |-> TRUE, code |-> BuiltIn("OMul256")]
      [] value = 12 -> [ok |-> TRUE, code |-> BuiltIn("WMul256")]
      [] OTHER -> [ok |-> FALSE, code |-> NoCode]

\* HintCode::to_u32
to_u32(code) ==
    CASE code = Ctrl("Start") -> 0
      [] code = Ctrl("End") -> 1
      [] code = Ctrl("Cancel") -> 2
      [] code = Ctrl("Error") -> 3
      [] code = BuiltIn("Noop") -> 4
      [] code = BuiltIn("EcRecover") -> 5
      [] code = BuiltIn("RedMod256") -> 6
      [] code = BuiltIn("AddMod256") -> 7
      [] code = BuiltIn("MulMod256") -> 8
      [] code = BuiltIn("DivRem256") -> 9
      [] code = BuiltIn("WPow256") -> 10
      [] code = BuiltIn("OMul256") -> 11
      [] code = BuiltIn("WMul256") -> 12

\* The result of PrecompileHint::from_u64_slice of common/src/hints.rs.
\* back is where the thread below keeps to_u32 of the code, again is
\* try_from of that.
CodeErr(msg) ==
    [ok |-> FALSE, msg |-> msg, hint_code |-> NoCode, data |-> <<>>,
     back |-> 0, again |-> [ok |-> FALSE, code |-> NoCode]]

\* PrecompileHint::from_u64_slice of common/src/hints.rs (the other one is
\* that of the precompiles crate); idx counts from 0 as in the source.
common_from_u64_slice(slice, idx) ==
    IF Len(slice) = 0 \/ idx >= Len(slice)
    THEN CodeErr(MsgOutOfBounds)
    ELSE LET header == slice[idx + 1]
             length == header[2]
         IN  IF Len(slice) < idx + length + 1
             THEN CodeErr(MsgTruncated)
             ELSE LET hint_code == try_from(header[1])
                  IN  IF ~hint_code.ok
                      THEN CodeErr(MsgInvalidCode)
                      ELSE [CodeErr(MsgOk) EXCEPT
                              !.ok = TRUE,
                              !.hint_code = hint_code.code,
                              !.data = SubSeq(slice, idx + 2, idx + length + 1)]

\* The hint codes of the headers: every code with an arm, the first ones
\* without, and some with higher bits set (the last is the largest u32
\* below 2^31; one with bit 31 set is no value of the model).
CodeValues == (0 .. 15) \cup {16, 255, 256, 65540, 16777220, 2147483647}

\* Bound on the words of a slice, and on the length a header announces.
MaxCodeLen == 2

CodeWords == {<<v, l>> : v \in CodeValues, l \in 0..MaxCodeLen}

CodeSlices == UNION {[1..n -> CodeWords] : n \in 0..MaxCodeLen}

\* A thread that parses a slice at an index and does nothing else.
CodeInit ==
    /\ buffer = <<>>
    /\ base_seq = 0
    /\ next_seq = 0
    /\ has_error = FALSE
    /\ generation = 0
    /\ lock = NoOwner
    /\ tasks = {}
    /\ spawned = 0
    /\ failed = {}
    /\ delivered = <<>>
    /\ IdleIo
    /\ \E slice \in CodeSlices : \E idx \in 0..MaxCodeLen :
          callers = [c \in Callers |->
                        [IdleCaller("from_u64_slice", MsgPending)
                            EXCEPT !.pc = "parse", !.hints = slice, !.idx = idx]]

\* let hint = PrecompileHint::from_u64_slice(slice, idx)
CodeParse(c) ==
    /\ callers[c].pc = "parse"
    /\ callers' = [callers EXCEPT
                      ![c].hint = common_from_u64_slice(callers[c].hints,
                                                        callers[c].idx),
                      ![c].pc = "parsed"]
    /\ UNCHANGED shared

\* HintCode::try_from(hint.hint_code.to_u32())
CodeBack(c) ==
    /\ callers[c].pc = "parsed"
    /\ callers[c].hint.ok
    /\ LET value == to_u32(callers[c].hint.hint_code)
       IN  callers' = [callers EXCEPT
                         ![c].hint.back = value,
                         ![c].hint.again = try_from(value),
                         ![c].pc = "back"]
    /\ UNCHANGED shared

CodeNext ==
    \/ \E c \in Callers : CodeParse(c)
    \/ \E c \in Callers : CodeBack(c)

CodeSpec == CodeInit /\ [][CodeNext]_vars

\* ------------------------------------------------------------ properties
\* No reset has started: the generation is the first one and no caller is
\* past the first statement of reset().
NoResetBegun ==
    /\ generation = 0
    /\ \A c \in Callers : callers[c].pc \notin {"rst_seq", "rst_gen", "rst_lock"}

\* C1: with no reset begun, the i-th result delivered is that of the i-th
\* hint dispatched (seq i - 1), popped when base_seq was i - 1, whatever the
\* order in which the workers finished.
C1_OrderInvariant ==
    NoResetBegun =>
        \A i \in DOMAIN delivered :
            /\ delivered[i].tid = i
            /\ delivered[i].seq_id = i - 1
            /\ delivered[i].at = i - 1

\* A later hint finished first and waits behind a pending slot, an earlier
\* one having been delivered, with no reset, error or cancellation so far.
C1_Witness ==
    /\ NoResetBegun
    /\ ~has_error
    /\ Len(delivered) = 1
    /\ Len(buffer) = 2
    /\ ~buffer[1].ready
    /\ buffer[2].ready /\ buffer[2].ok

\* C2: no hint is delivered whose generation has a failed hint of lower seq.
C2_ErrorThenStop ==
    \A i \in DOMAIN delivered : \A f \in failed :
        ~(f.generation = delivered[i].generation /\ f.seq_id < delivered[i].seq_id)

\* C3: a step of a closure whose captured generation is not the current one
\* leaves the buffer, base_seq, the error flag and the deliveries alone.
C3_StaleWorkerInert ==
    [][\A t \in tasks :
          (t.generation # generation /\ t \notin tasks')
              => UNCHANGED <<buffer, base_seq, has_error, delivered>>]_vars

\* C4: once reset() has returned, the shared state is that of a new
\* processor (the generation and the history apart).
C4_FreshAfterReset ==
    \A c \in Callers :
        (callers[c].pc = "idle" /\ callers[c].op = "reset")
            => /\ buffer = <<>>
               /\ base_seq = 0
               /\ next_seq = 0
               /\ ~has_error

\* C5: only the first statement of reset() takes the error flag from set to
\* clear.
C5_ErrorSticky ==
    [][(has_error /\ ~has_error')
          => \E c \in Callers : callers[c].pc = "rst_err" /\ callers'[c].pc = "rst_seq"]_vars

\* The flag is still set after a wait_for_completion call has returned Err
\* and a closure has been spawned.
C5_Witness ==
    /\ has_error
    /\ spawned > 0
    /\ \E c \in Callers :
          callers[c].pc = "idle" /\ callers[c].op = "wait" /\ callers[c].ret = MsgWaitError

\* The step is the entry check of a process_hints call, or its check before
\* a record.
ExaminesFlag(c) ==
    /\ callers'[c] # callers[c]
    /\ \/ /\ callers[c].pc = "idle"
          /\ callers'[c].op = "process_hints"
          /\ callers'[c].pc \in {"idle", "ph_loop"}
       \/ /\ callers[c].pc = "ph_loop"
          /\ callers[c].idx < Len(callers[c].hints)

\* C6: a process_hints call that examines the flag while it is set returns
\* Err at once and reserves and spawns nothing.
C6_FailFast ==
    [][\A c \in Callers :
          (has_error /\ ExaminesFlag(c))
              => /\ callers'[c].pc = "idle"
                 /\ callers'[c].ret = MsgPrevError
                 /\ UNCHANGED <<buffer, base_seq, next_seq, tasks, spawned>>]_vars

\* A call has returned the fail-fast error with hints of earlier calls
\* dispatched.
C6_Witness ==
    /\ has_error
    /\ spawned > 0
    /\ \E c \in Callers :
          /\ callers[c].pc = "idle"
          /\ callers[c].op = "process_hints"
          /\ callers[c].ret = MsgPrevError

\* The header the scan of caller c is at.
HeaderAt(c) == callers[c].hints[callers[c].idx + 1]

\* C7: a CANCEL or ERROR record examined with the flag clear leads to one
\* step that sets the flag and returns Err, whatever follows it in the
\* buffer, and that changes nothing else; the two differ in the message.
C7_CancelImmediate ==
    [][\A c \in Callers :
          /\ (/\ callers[c].pc = "ph_loop"
               /\ callers[c].idx < Len(callers[c].hints)
               /\ ~has_error
               /\ HeaderAt(c) \in {RecCancel[1], RecError[1]}
               /\ callers'[c] # callers[c])
                => /\ callers'[c].pc =
                         (IF HeaderAt(c) = RecCancel[1] THEN "ph_cancel" ELSE "ph_error")
                   /\ UNCHANGED shared
          /\ (callers[c].pc \in {"ph_cancel", "ph_error"} /\ callers'[c] # callers[c])
                => /\ has_error'
                   /\ callers'[c].pc = "idle"
                   /\ callers'[c].ret =
                         (IF callers[c].pc = "ph_cancel" THEN MsgCancelled ELSE MsgSignalled)
                   /\ UNCHANGED <<buffer, base_seq, next_seq, generation, lock,
                                  tasks, spawned, failed, delivered>>]_vars

\* A call has returned "Stream cancelled" with a reserved slot still in the
\* buffer.
C7_Witness ==
    /\ has_error
    /\ buffer # <<>>
    /\ next_seq > 0
    /\ \E c \in Callers :
          /\ callers[c].pc = "idle"
          /\ callers[c].op = "process_hints"
          /\ callers[c].ret = MsgCancelled

\* The headers of the caller's records that carry no directive.
DataHeaders == {RecResult[1], RecUnknown[1], RecTruncated[1]}

\* C8: next_seq, the number of slots and the closures change only together,
\* by one, at the dispatch of a record without directive, except that reset
\* sets next_seq to 0; every delivery is that of a dispatched data record.
C8_ControlInvisible ==
    [][/\ (next_seq' # next_seq \/ spawned' # spawned \/ Len(buffer') > Len(buffer))
           => \/ \E c \in Callers :
                    /\ callers[c].pc = "ph_push"
                    /\ HeaderAt(c) \in DataHeaders
                    /\ next_seq' = next_seq + 1
                    /\ spawned' = spawned + 1
                    /\ buffer' = Append(buffer, None)
              \/ \E c \in Callers :
                    /\ callers[c].pc = "rst_seq"
                    /\ next_seq' = 0
                    /\ spawned' = spawned
                    /\ buffer' = buffer
       /\ \A i \in DOMAIN delivered' : delivered'[i].tid \in 1..spawned']_vars

\* A scan has gone through a START and an END record and next_seq is 0,
\* after hints were dispatched before.
C8_Witness ==
    /\ spawned > 0
    /\ next_seq = 0
    /\ \E c \in Callers :
          /\ callers[c].pc = "ph_loop"
          /\ callers[c].hints = RecStart \o RecEnd
          /\ callers[c].idx = 2

\* The deliveries of the current generation are those of seq 0 .. next_seq-1,
\* in order.
CurrentAllDelivered ==
    LET cur == SelectSeq(delivered, LAMBDA d : d.generation = generation)
    IN  /\ Len(cur) = next_seq
        /\ \A i \in 1..Len(cur) : cur[i].seq_id = i - 1 /\ cur[i].at = i - 1

\* The scan of caller c has just gone past an END record.
PassedEnd(c) ==
    /\ callers[c].pc = "ph_loop"
    /\ callers[c].idx > 0
    /\ callers[c].hints[callers[c].idx] = RecEnd[1]

\* C9: the scan goes past an END record only with the buffer empty, the flag
\* clear and every hint of the generation delivered; while it waits there
\* the buffer was not empty; the error it returns from there is that of a
\* set flag.
C9_EndWaits ==
    \A c \in Callers :
        /\ PassedEnd(c) => (buffer = <<>> /\ ~has_error /\ CurrentAllDelivered)
        /\ (/\ callers[c].pc = "idle"
             /\ callers[c].op = "process_hints"
             /\ callers[c].ret = MsgWaitError) => has_error

\* A scan is past an END record that followed a dispatched hint in the same
\* buffer.
C9_Witness ==
    \E c \in Callers :
        /\ PassedEnd(c)
        /\ callers[c].hints = RecResult \o RecEnd
        /\ Len(delivered) > 0

\* What a step of wait_for_completion at its loop came to.
WfcOutcome(c) ==
    IF callers'[c].pc = "wfc_wait" THEN "wait"
    ELSE IF callers'[c].pc = "ph_loop" THEN MsgOk
    ELSE callers'[c].ret

\* C10: wait_for_completion returns Err when the flag is set, empty buffer
\* or not; else Ok when the buffer is empty; else it waits.
C10_WaitReturns ==
    [][\A c \in Callers :
          (callers[c].pc = "wfc_check" /\ callers'[c] # callers[c])
              => WfcOutcome(c) = (IF has_error THEN MsgWaitError
                                  ELSE IF buffer = <<>> THEN MsgOk
                                  ELSE "wait")]_vars

\* wait_for_completion has returned Err with the buffer empty.
C10_Witness ==
    /\ has_error
    /\ buffer = <<>>
    /\ spawned > 0
    /\ \E c \in Callers :
          callers[c].pc = "idle" /\ callers[c].op = "wait" /\ callers[c].ret = MsgWaitError

\* No handler error, cancellation, error directive or reset so far.
Undisturbed ==
    /\ NoResetBegun
    /\ ~has_error
    /\ failed = {}
    /\ \A c \in Callers : callers[c].pc \notin {"ph_cancel", "ph_error", "rst_err"}

\* Caller c is inside wait_for_completion (called directly or at an END).
InWait(c) == callers[c].pc \in {"wfc_lock", "wfc_check", "wfc_wait", "wfc_blocked"}

\* C11: undisturbed, the n hints dispatched so far are eventually all
\* delivered, the buffer then being empty unless more were dispatched, and a
\* caller inside wait_for_completion eventually returns from it, with Ok.
C11_EventuallyDrained ==
    /\ \A n \in 1..MaxTasks :
          (spawned = n /\ Undisturbed)
              ~> (\/ ~Undisturbed
                  \/ /\ Len(delivered) >= n
                     /\ (spawned = n => buffer = <<>>))
    /\ \A c \in Callers :
          (InWait(c) /\ Undisturbed)
              ~> (\/ ~Undisturbed
                  \/ /\ ~InWait(c)
                     /\ callers[c].ret \in {MsgOk, MsgPending})

\* A direct wait_for_completion call has returned Ok after MaxTasks hints
\* were dispatched and delivered, undisturbed.
C11_Witness ==
    /\ Undisturbed
    /\ spawned = MaxTasks
    /\ Len(delivered) = MaxTasks
    /\ buffer = <<>>
    /\ \E c \in Callers :
          callers[c].pc = "idle" /\ callers[c].op = "wait" /\ callers[c].ret = MsgOk

\* The handler of a hint of the current generation has returned Err.
FailedNow == \E f \in failed : f.generation = generation

Quiescent == buffer = <<>> /\ tasks = {} /\ ~has_error

\* The step of caller c belongs to a wait_for_completion call or to a
\* process_hints call on an empty buffer (the call itself included).
NoWorkStep(c) ==
    /\ callers'[c] # callers[c]
    /\ \/ callers'[c].op = "wait"
       \/ callers'[c].op = "process_hints" /\ callers'[c].hints = <<>>
                                            /\ callers[c].hints = <<>>

\* C13: from a quiescent state every step of a call without work leaves
\* next_seq, base_seq, the buffer, the generation, the flag and the
\* deliveries unchanged, never blocks, and the call returns Ok.
C13_NoWorkNoOp ==
    [][\A c \in Callers :
          (Quiescent /\ NoWorkStep(c))
              => /\ UNCHANGED <<buffer, base_seq, next_seq, generation, has_error,
                                delivered, tasks, spawned>>
                 /\ callers'[c].pc \notin {"wfc_wait", "wfc_blocked"}
                 /\ callers'[c].pc = "idle" => callers'[c].ret = MsgOk]_vars

\* A wait_for_completion call has returned Ok to a quiescent processor that
\* has delivered hints before.
C13_Witness ==
    /\ Quiescent
    /\ lock = NoOwner
    /\ Len(delivered) > 0
    /\ \E c \in Callers :
          callers[c].pc = "idle" /\ callers[c].op = "wait" /\ callers[c].ret = MsgOk

\* The closures whose result was delivered; those whose result is in a slot.
DeliveredTids == {delivered[i].tid : i \in DOMAIN delivered}

StoredTids == {buffer[n].by.tid : n \in {m \in DOMAIN buffer : buffer[m].ready}}

\* Closure t returns in this step without having stored its result: the
\* flag was set (first or second check), its generation was stale or its
\* slot was gone.
Discards(t) ==
    /\ t \in tasks
    /\ \A u \in tasks' : u.tid # t.tid
    /\ \/ t.pc \in {"queued", "computed"}
       \/ t.pc = "locked" /\ has_error

\* C14: no hint is delivered twice; a result is delivered only after its own
\* closure stored it, and leaves the buffer when it is delivered; a step
\* delivers as many results as it pops Ok slots; a closure that discards its
\* result leaves the buffer, base_seq and the deliveries alone, and its hint
\* is not among the delivered ones.
C14_DeliveredOnce ==
    /\ [](/\ \A i, j \in DOMAIN delivered :
                 i # j => delivered[i].tid # delivered[j].tid
          /\ \A i, j \in DOMAIN buffer :
                 (i # j /\ buffer[i].ready /\ buffer[j].ready)
                     => buffer[i].by.tid # buffer[j].by.tid
          /\ DeliveredTids \cap StoredTids = {}
          /\ \A t \in tasks :
                 t.pc \in {"queued", "computed", "locked", "checked"}
                     => t.tid \notin DeliveredTids \cup StoredTids)
    /\ [][/\ Len(delivered') >= Len(delivered)
           /\ SubSeq(delivered', 1, Len(delivered)) = delivered
           /\ LET k == Len(delivered') - Len(delivered)
              IN  /\ k > 0 => /\ base_seq' = base_seq + k
                              /\ Len(buffer') = Len(buffer) - k
                  /\ base_seq' > base_seq
                        => \/ k = base_seq' - base_seq
                           \/ /\ k = 0
                              /\ base_seq' = base_seq + 1
                              /\ buffer[1].ready /\ ~buffer[1].ok
           /\ \A t \in tasks :
                Discards(t)
                    => /\ UNCHANGED <<buffer, base_seq, delivered>>
                       /\ t.tid \notin DeliveredTids]_vars

\* Two results stored out of order were delivered by one drain, and a later
\* closure discarded its result because the flag was set.
C14_Witness ==
    /\ Len(delivered) = 2
    /\ delivered[1].at = 0 /\ delivered[2].at = 1
    /\ delivered[1].tid # delivered[2].tid
    /\ spawned = 3
    /\ tasks = {}
    /\ has_error
    /\ buffer # <<>> /\ ~buffer[1].ready

\* Every (closure, generation, seq) still on record: closures in flight,
\* stored results, deliveries and failures.
KnownTags ==
    {Tag(t) : t \in tasks}
        \cup {buffer[n].by : n \in {m \in DOMAIN buffer : buffer[m].ready}}
        \cup {[tid |-> delivered[n].tid, generation |-> delivered[n].generation,
               seq_id |-> delivered[n].seq_id] : n \in DOMAIN delivered}
        \cup failed

\* C15: in a generation the seq ids follow the dispatch order one by one
\* (two hints of a generation differ in seq by as much as in order of
\* dispatch, so no seq is given twice), from 0 in the first generation,
\* below next_seq in the current one; a dispatch gives the hint the seq
\* next_seq and the slot at that offset, and adds one to next_seq.
C15_SeqMonotonic ==
    /\ [](/\ \A a, b \in KnownTags :
                 a.generation = b.generation => a.seq_id - b.seq_id = a.tid - b.tid
          /\ \A a \in KnownTags : a.generation = 0 => a.seq_id = a.tid - 1
          /\ \A a \in KnownTags :
                 (a.generation = generation
                    /\ \A c \in Callers : callers[c].pc # "rst_gen")
                     => a.seq_id < next_seq)
    /\ [][spawned' # spawned
            => \E t \in tasks' \ tasks :
                  /\ spawned' = spawned + 1
                  /\ t.tid = spawned'
                  /\ t.seq_id = next_seq
                  /\ t.seq_id = base_seq + Len(buffer)
                  /\ t.generation = generation
                  /\ next_seq' = next_seq + 1]_vars

\* More hints than one buffer holds, so dispatched by at least two calls, are
\* in flight with the seq ids 0 .. MaxRecs.
C15_Witness ==
    /\ NoResetBegun
    /\ {t.seq_id : t \in tasks} = 0..MaxRecs
    /\ next_seq = MaxRecs + 1
    /\ \A c \in Callers : callers[c].pc = "idle"

\* The steps of a process_hints call outside wait_for_completion: those
\* that take no mutex, and those that start with reorder.lock().
ScanStep(c) ==
    \/ PHDone(c) \/ PHRecord(c) \/ PHCancel(c) \/ PHError(c) \/ PHPush(c)
    \/ ResetError(c) \/ ResetSeq(c) \/ ResetGeneration(c)

ScanLockStep(c) == PHReserve(c) \/ ResetClear(c)

\* C16: a process_hints call is inside wait_for_completion only at an END
\* record; anywhere else its next step can be taken whatever the closures
\* have done, given the mutex when the step locks it; and the mutex is never
\* held by a closure that has yet to run its handler.
C16_DispatchNonBlocking ==
    /\ \A c \in Callers :
          callers[c].op = "process_hints" =>
              /\ InWait(c) => CtrlOf(callers[c].hint.hint_type) = STREAM_CTRL_END
              /\ callers[c].pc \in {"ph_loop", "ph_cancel", "ph_error", "ph_push",
                                     "rst_err", "rst_seq", "rst_gen"}
                    => ENABLED ScanStep(c)
              /\ (callers[c].pc \in {"ph_reserve", "rst_lock"} /\ lock = NoOwner)
                    => ENABLED ScanLockStep(c)
    /\ \A t \in tasks :
          t.pc \in {"queued", "computed"} => lock # TaskOwner(t.tid)

\* A call has scanned a full buffer of data hints and returned Ok, and no
\* pool thread has taken any of the closures yet.
C16_Witness ==
    /\ spawned = MaxRecs
    /\ Len(buffer) = MaxRecs
    /\ \A n \in DOMAIN buffer : ~buffer[n].ready
    /\ Cardinality(tasks) = MaxRecs
    /\ \A t \in tasks : t.pc = "queued"
    /\ \E c \in Callers :
          /\ callers[c].pc = "idle"
          /\ callers[c].op = "process_hints"
          /\ callers[c].ret = MsgOk

\* C17: a header that announces more words than the buffer has left,
\* examined with the flag clear, makes the call return the parse error in
\* that step, which changes nothing of the shared state (flag, slots,
\* closures, seq counters); and a process_hints call made after that return
\* with the flag still clear is accepted.
C17_ParseErrorNoRollback ==
    [][\A c \in Callers :
          /\ (/\ callers[c].pc = "ph_loop"
               /\ callers[c].idx < Len(callers[c].hints)
               /\ ~has_error
               /\ HeaderAt(c) = RecTruncated[1]
               /\ callers'[c] # callers[c])
                => /\ callers'[c].pc = "idle"
                   /\ callers'[c].ret = MsgTruncated
                   /\ UNCHANGED shared
          /\ (/\ callers[c].pc = "idle"
               /\ callers[c].ret = MsgTruncated
               /\ ~has_error
               /\ callers'[c].op = "process_hints"
               /\ callers'[c] # callers[c])
                => callers'[c].pc = "ph_loop"]_vars

\* A call has returned the parse error, the flag is clear, and the one hint
\* dispatched has been delivered.
C17_Witness ==
    /\ ~has_error
    /\ spawned = 1
    /\ Len(delivered) = 1
    /\ buffer = <<>>
    /\ \E c \in Callers :
          /\ callers[c].pc = "idle"
          /\ callers[c].op = "process_hints"
          /\ callers[c].ret = MsgTruncated

\* The scan of caller c has just gone past a START record.
PassedStart(c) ==
    /\ callers[c].pc = "ph_loop"
    /\ callers[c].idx > 0
    /\ callers[c].hints[callers[c].idx] = RecStart[1]

\* C18: when the scan goes on after a START record the buffer is empty,
\* base_seq and next_seq are 0, the error flag is clear and the generation
\* is a new one.
C18_StartResets ==
    \A c \in Callers :
        PassedStart(c)
            => /\ buffer = <<>>
               /\ base_seq = 0
               /\ next_seq = 0
               /\ ~has_error
               /\ generation > 0

\* C19: in repeated streams no call returns Err and the flag is never set;
\* every closure in flight is of the current generation and has its slot;
\* and when the scan goes past an END the buffer is empty and the deliveries
\* of the current generation are those of seq 0 .. next_seq - 1, in order.
C19_StreamsComplete ==
    /\ ~has_error
    /\ \A t \in tasks : ~IsStale(t) /\ ~NoSlot(t)
    /\ \A c \in Callers :
          /\ ~IsErr(callers[c].ret)
          /\ PassedEnd(c) => (buffer = <<>> /\ tasks = {} /\ CurrentAllDelivered)

\* The END of a second stream has returned: the hints of both streams were
\* delivered, those of the second under the seq ids of the first.
C19_Witness ==
    /\ generation = 2
    /\ \E c \in Callers : PassedEnd(c)
    /\ \E i, j \in DOMAIN delivered :
          /\ delivered[i].generation = 1
          /\ delivered[j].generation = 2
          /\ delivered[i].seq_id = delivered[j].seq_id

\* C20: from_u64_slice(slice, idx) fails when idx >= len, fails when
\* len < idx + length + 1, and otherwise returns the high half of the header
\* as hint_type and the `length` words slice[idx+1 .. idx+length], all of
\* them inside the slice (indices here count from 1, so word idx+k of the
\* source is slice[idx + 1 + k]); the call changes neither the slice nor
\* the index nor the shared state.
C20_ParseContract ==
    /\ [](\A c \in Callers :
            callers[c].pc = "parsed" =>
                LET slice == callers[c].hints
                    idx == callers[c].idx
                    hint == callers[c].hint
                IN  IF idx >= Len(slice)
                    THEN ~hint.ok /\ hint.msg = MsgTooShort
                    ELSE LET length == slice[idx + 1][2]
                         IN  IF Len(slice) < idx + length + 1
                             THEN ~hint.ok /\ hint.msg = MsgTruncated
                             ELSE /\ hint.ok
                                  /\ hint.hint_type = slice[idx + 1][1]
                                  /\ Len(hint.data) = length
                                  /\ \A k \in 1..length :
                                        /\ idx + 1 + k \in DOMAIN slice
                                        /\ hint.data[k] = slice[idx + 1 + k])
    /\ [][/\ \A c \in Callers :
                /\ callers'[c].hints = callers[c].hints
                /\ callers'[c].idx = callers[c].idx
           /\ UNCHANGED shared]_vars

\* A record with a directive in its type and data up to the end of the
\* slice was parsed at an index that is not the first.
C20_Witness ==
    \E c \in Callers :
        /\ callers[c].pc = "parsed"
        /\ callers[c].hint.ok
        /\ callers[c].idx > 0
        /\ Len(callers[c].hint.data) > 0
        /\ callers[c].idx + Len(callers[c].hint.data) + 1 = Len(callers[c].hints)
        /\ callers[c].hint.hint_type = RecStart[1][1]

Messages(rs) == [i \in 1..Len(SelectSeq(rs, LAMBDA r : r.ret = "Some")) |->
                    SelectSeq(rs, LAMBDA r : r.ret = "Some")[i].msg]

\* C22: the messages returned by next are, one per call and in order, the
\* items whose write succeeded: the i-th message returned is the i-th item
\* written, byte for byte.
C22_MessageBoundaries ==
    /\ Len(Messages(received)) <= Len(written)
    /\ \A i \in 1..Len(Messages(received)) : Messages(received)[i] = written[i]

\* C24: when next returns None, the writer has closed the connection and
\* every item written before the close has been returned by the calls
\* before it, in order; nothing returned after a connection is an error.
C24_CloseThenNone ==
    \A i \in 1..Len(received) :
        received[i].ret = "None" =>
            /\ writer.op = "close"
            /\ Messages(SubSeq(received, 1, i - 1)) = written

WriteStep == \E item \in Items : WriterWrite(item)

\* The accept thread has handed the connection over: the writer holds the
\* socket or finds it in the channel.
ClientAccepted == writer.socket \/ kernel.in_channel

\* C23: open needs no client (it can be taken, and returns Ok, while no
\* client has connected); a write while no client has connected returns
\* NoClientConnected, and a write that returns it sends nothing; once the
\* writer holds the connection it keeps it until close, is_client_connected
\* returns true, and a write to the connected client succeeds.
C23_NoClientConnected ==
    /\ [](writer.op # "close" /\ kernel.client = "none" => ENABLED WriterOpen)
    /\ [](writer.op = "open" => writer.ret = "Ok")
    /\ [](writer.op = "write" /\ kernel.client = "none"
            => writer.ret = "NoClientConnected")
    /\ [][WriteStep /\ writer'.ret = "NoClientConnected"
            => /\ written' = written
               /\ kernel'.queue = kernel.queue
               /\ ~writer'.socket]_vars
    /\ [][writer.socket /\ ~WriterClose => writer'.socket]_vars
    /\ [][WriterIsClientConnected /\ ClientAccepted => writer'.ret = "true"]_vars
    /\ [][WriteStep /\ ClientAccepted /\ kernel.client = "open"
            => writer'.ret = "Ok" /\ writer'.socket]_vars

\* A write before any client has connected has returned NoClientConnected
\* and nothing is queued.
C23_Witness ==
    /\ writer.op = "write"
    /\ writer.ret = "NoClientConnected"
    /\ kernel.client = "none"
    /\ kernel.queue = <<>>
    /\ written = <<>>

Occurrences(names, name) == Cardinality({i \in DOMAIN names : names[i] = name})

\* C25: with writers initialized, add_shmem_name returns Err and the list of
\* names is unchanged; before that it returns Ok, a name not in the list is
\* appended at the end, and a name already in the list leaves the list as
\* it is (no name occurs more often than before).
C25_AddShmemName ==
    [][\A name \in ShmemNames :
          AddShmemName(name) =>
              LET names == hints_shmem.shmem_names
                  after == hints_shmem'.shmem_names
              IN  /\ is_initialized(hints_shmem)
                       => hints_shmem'.ret = "Err" /\ after = names
                  /\ ~is_initialized(hints_shmem)
                       => /\ hints_shmem'.ret = "Ok"
                          /\ Occurrences(after, name) = IF Occurrences(names, name) = 0
                                                        THEN 1
                                                        ELSE Occurrences(names, name)
                          /\ Len(after) = Len(names) + (IF Occurrences(names, name) = 0
                                                        THEN 1 ELSE 0)
                          /\ SubSeq(after, 1, Len(names)) = names
                  /\ hints_shmem'.shmem_writers = hints_shmem.shmem_writers]_vars

\* All three outcomes have happened to one object: a name was appended
\* before initialization, and an add after initialization was refused.
C25_Witness ==
    /\ hints_shmem.op = "add_shmem_name"
    /\ hints_shmem.ret = "Err"
    /\ Len(hints_shmem.shmem_writers) > MaxNames
    /\ hints_shmem.shmem_names = hints_shmem.shmem_writers

\* C26: the step on which reset() returns (to its caller or to the scan
\* after a START record) leaves the error flag clear, next_seq = 0,
\* base_seq = 0 and the buffer empty, whatever the closures in flight do
\* meanwhile; and the call has raised the generation by exactly one (its
\* fetch_add adds one, and no other step of the call changes it).
C26_ResetPostState ==
    [][\A c \in Callers :
          /\ ResetClear(c) => /\ ~has_error'
                              /\ next_seq' = 0
                              /\ base_seq' = 0
                              /\ buffer' = <<>>
                              /\ generation' = generation
          /\ ResetGeneration(c) => generation' = generation + 1
          /\ (ResetCall(c) \/ ResetError(c) \/ ResetSeq(c)) => generation' = generation]_vars

\* No thread is inside reset().
NoResetRunning ==
    \A c \in DOMAIN callers : callers[c].pc \notin {"rst_err", "rst_seq", "rst_gen", "rst_lock"}

\* C27: whenever no reset is running (and no error has stopped the workers),
\* every slot of the buffer was reserved in the current generation for seq
\* base_seq + its index: a filled slot was filled by the closure of that
\* generation and seq, and a pending slot has that closure in flight to
\* fill it.
C27_ReservationAtomic ==
    (NoResetRunning /\ ~has_error) =>
        \A i \in DOMAIN buffer :
            IF buffer[i].ready
            THEN /\ buffer[i].by.generation = generation
                 /\ buffer[i].by.seq_id = base_seq + i - 1
            ELSE \E t \in tasks : /\ t.generation = generation
                                  /\ t.seq_id = base_seq + i - 1

\* Every filled slot was filled by the closure of the current generation
\* whose seq is base_seq + the slot's index, and the next slot appended gets
\* the seq after the last one.
SlotsAligned ==
    /\ \A i \in DOMAIN buffer :
          buffer[i].ready => /\ buffer[i].by.generation = generation
                             /\ buffer[i].by.seq_id = base_seq + i - 1
    /\ next_seq = base_seq + Len(buffer)

\* The shapes of a step that changes the buffer or base_seq.
TailAppended == buffer' = Append(buffer, None) /\ base_seq' = base_seq

AllCleared == buffer' = <<>> /\ base_seq' = 0 /\ \E c \in DOMAIN callers : ResetClear(c)

HeadRemoved ==
    \E k \in 1..Len(buffer) :
        /\ buffer' = SubSeq(buffer, k + 1, Len(buffer))
        /\ base_seq' = base_seq + k

StoredAtOffset ==
    \E t \in tasks : \E k \in 0..Len(buffer) :
        /\ t.seq_id - base_seq + 1 \in DOMAIN buffer
        /\ LET stored == [buffer EXCEPT ![t.seq_id - base_seq + 1] = Some(t.result, t)]
           IN  buffer' = SubSeq(stored, k + 1, Len(stored))
        /\ base_seq' = base_seq + k

FlagSet == ~has_error /\ has_error'

\* C29: with data hints and END records only, the step that sets the flag
\* finds the failed slot of seq k = base_seq at the front, where no hint
\* below k has failed or can fail and the deliveries so far are the hints
\* 0 .. k - 1 in order; it pops that slot alone (base_seq becomes k + 1) and
\* delivers nothing. No failed hint is ever delivered, and once the flag
\* is set nothing more is delivered or popped, whatever slots are ready.
C29_LowestFailureStops ==
    /\ [][FlagSet =>
            /\ buffer # <<>>
            /\ buffer[1].ready /\ ~buffer[1].ok
            /\ buffer[1].by.seq_id = base_seq
            /\ \A f \in failed : f.seq_id >= base_seq
            /\ \A t \in tasks : t.base_type = UnknownType => t.seq_id >= base_seq
            /\ Len(delivered) = base_seq
            /\ \A i \in DOMAIN delivered : delivered[i].seq_id = i - 1
            /\ base_seq' = base_seq + 1
            /\ buffer' = Tail(buffer)
            /\ delivered' = delivered]_vars
    /\ [](\A i \in DOMAIN delivered : \A f \in failed : delivered[i].tid # f.tid)
    /\ [][has_error => /\ has_error'
                       /\ delivered' = delivered
                       /\ base_seq' = base_seq
                       /\ (buffer' = buffer \/ buffer' = Append(buffer, None))]_vars

\* The second of three hints failed: the first was delivered, the flag is
\* set with base_seq = 2, and the third, already ready, stays in the buffer.
C29_Witness ==
    /\ has_error
    /\ Len(delivered) = 1
    /\ base_seq = 2
    /\ \E f \in failed : f.seq_id = 1
    /\ Len(buffer) = 1
    /\ buffer[1].ready /\ buffer[1].ok
    /\ tasks = {}

\* C30: a thread that is inside wait_for_completion (called directly or at
\* an END record) while the error flag is set eventually returns from it
\* with an error.
C30_CancelWakesWaiter ==
    \A c \in Threads :
        (has_error /\ InWait(c))
            ~> (callers[c].pc = "idle" /\ IsErr(callers[c].ret))

\* C31: a START record examined with the error flag set is not applied, the
\* call returns Err in that step and changes nothing; and with the flag set,
\* only a step of a direct reset() call clears the flag or starts a new
\* generation.
C31_StartNoRecover ==
    [][/\ \A c \in Callers :
            (/\ callers[c].pc = "ph_loop"
             /\ callers[c].idx < Len(callers[c].hints)
             /\ has_error
             /\ HeaderAt(c) = RecStart[1]
             /\ callers'[c] # callers[c])
                => /\ callers'[c].pc = "idle"
                   /\ callers'[c].ret = MsgPrevError
                   /\ UNCHANGED shared
       /\ (has_error /\ (~has_error' \/ generation' # generation))
            => \E c \in Callers :
                  callers[c].op = "reset" /\ callers'[c] # callers[c]]_vars

\* Closure t is not in flight after the step.
Returns(t) == \A u \in tasks' : u.tid # t.tid

\* C32: a closure taken by a pool thread while the flag is set returns
\* without running its handler (no result, nothing recorded as failed); a
\* closure that finds the flag set at its second check, holding the mutex,
\* returns and unlocks without storing, draining or notifying; and the
\* handler of a closure runs at most once: its result is set only in the
\* step that takes it from the queue, to which it never returns.
C32_CooperativeCancel ==
    [][\A t \in tasks :
          /\ (t.pc = "queued" /\ has_error /\ t \notin tasks')
                => /\ Returns(t)
                   /\ UNCHANGED <<buffer, base_seq, next_seq, has_error, lock,
                                  callers, failed, delivered>>
          /\ (t.pc = "locked" /\ has_error /\ t \notin tasks')
                => /\ Returns(t)
                   /\ lock' = NoOwner
                   /\ UNCHANGED <<buffer, base_seq, next_seq, has_error,
                                  callers, failed, delivered>>
          /\ \A u \in tasks' :
                u.tid = t.tid
                    => /\ u.pc = "queued" => t.pc = "queued"
                       /\ u.result # t.result
                             => t.pc = "queued" /\ u.pc = "computed"]_vars

\* With the flag set by a directive, a closure that ran its handler is at
\* its second check holding the mutex, and the other closure has returned
\* leaving its slot pending.
C32_Witness ==
    /\ NoResetBegun
    /\ has_error
    /\ failed = {}
    /\ spawned = 2
    /\ Len(buffer) = 2
    /\ \A n \in DOMAIN buffer : ~buffer[n].ready
    /\ Cardinality(tasks) = 1
    /\ \E t \in tasks : t.pc = "locked" /\ lock = TaskOwner(t.tid)

\* The step is the return of wait_for_completion with an error: to a direct
\* call, or through the `?` of an END record.
WaitFails(c) ==
    /\ callers[c].pc = "wfc_check"
    /\ callers'[c].pc = "idle"
    /\ IsErr(callers'[c].ret)

\* C33 as stated: when a handler has failed, the error wait_for_completion
\* returns is that handler's error ("Unknown hint type" for a type without
\* handler).
C33_HandlerErrorReturned ==
    [][\A c \in Callers :
          (WaitFails(c) /\ FailedNow) => callers'[c].ret = MsgUnknown]_vars

\* C33, amended: the error wait_for_completion returns is the fixed
\* "Processing stopped due to error", returned with the flag set, whatever
\* failed; the handler's own error is returned to no caller.
C33_WaitErrorGeneric ==
    /\ [][\A c \in Callers :
            WaitFails(c) => (callers'[c].ret = MsgWaitError /\ has_error)]_vars
    /\ [](\A c \in Callers : callers[c].ret # MsgUnknown)

\* The handler of the only hint of a buffer failed and the END record after
\* it returned the error; a valid hint dispatched before was delivered.
C33_Witness ==
    /\ FailedNow
    /\ has_error
    /\ spawned = 2
    /\ Len(delivered) = 1
    /\ buffer = <<>>
    /\ \E c \in Callers :
          /\ callers[c].pc = "idle"
          /\ callers[c].op = "process_hints"
          /\ callers[c].ret = MsgWaitError

\* The last call of caller c was a process_hints that returned the error of
\* a CANCEL or ERROR record, and c has started nothing since (no reset).
CancelReturned(c) ==
    /\ callers[c].pc = "idle"
    /\ callers[c].op = "process_hints"
    /\ callers[c].ret \in {MsgCancelled, MsgSignalled}

\* C34: once process_hints has returned Err for a CANCEL or ERROR record,
\* and until the caller does something else, no step changes the buffer or
\* base_seq or delivers a result.
C34_CancelStopsWorkers ==
    [][(\E c \in Callers : CancelReturned(c))
          => UNCHANGED <<buffer, base_seq, delivered>>]_vars

\* C35: whenever the mutex is free and no thread is inside reset(),
\* next_seq = base_seq + the number of slots, and base_seq <= next_seq.
C35_SeqAccounting ==
    (lock = NoOwner /\ NoResetRunning)
        => /\ next_seq = base_seq + Len(buffer)
           /\ base_seq <= next_seq

\* The control byte (bits 31..24) and the low 24 bits of a hint_type, taken
\* by division.
HighByte(hint_type) == hint_type \div 16777216

Low24(hint_type) == hint_type - 16777216 * HighByte(hint_type)

\* What the handlers give for a base type and data: the data for RESULT,
\* nothing for ECRECOVER, an error for every other type.
Handled(base_type, data) ==
    IF base_type = 1 THEN [ok |-> TRUE, val |-> data, msg |-> MsgOk]
    ELSE IF base_type = 2 THEN [ok |-> TRUE, val |-> <<>>, msg |-> MsgOk]
    ELSE [ok |-> FALSE, val |-> <<>>, msg |-> MsgUnknown]

AtDirective(c) ==
    /\ callers[c].pc = "ph_loop"
    /\ callers[c].idx < Len(callers[c].hints)
    /\ ~has_error
    /\ HighByte(HeaderAt(c)[1]) \in {1, 2}
    /\ callers'[c] # callers[c]

\* The step ends the directive caller c is in and goes on with the scan.
DirectiveDone(c) ==
    /\ callers[c].pc \in {"rst_lock", "wfc_check"}
    /\ callers'[c].pc = "ph_loop"

\* C37: a START or END header that announces L words, examined with the
\* flag clear: when the L words are not all in the buffer the call returns
\* the parse error in that step and nothing of the directive is applied;
\* otherwise the directive is entered with the L words as its payload, and
\* when it is done the scan goes on at idx + L + 1. Only data records are
\* dispatched: every closure holds the payload of a data record, never a
\* directive's.
C37_DirectivePayloadSkipped ==
    [][\A c \in Callers :
          /\ AtDirective(c) =>
                IF callers[c].idx + HeaderAt(c)[2] + 1 > Len(callers[c].hints)
                THEN /\ callers'[c].pc = "idle"
                     /\ callers'[c].ret = MsgTruncated
                     /\ UNCHANGED shared
                ELSE /\ callers'[c].pc =
                          (IF HighByte(HeaderAt(c)[1]) = 1 THEN "rst_err" ELSE "wfc_lock")
                     /\ Len(callers'[c].hint.data) = HeaderAt(c)[2]
                     /\ callers'[c].idx = callers[c].idx
          /\ DirectiveDone(c)
                => callers'[c].idx = callers[c].idx + HeaderAt(c)[2] + 1
          /\ (callers[c].pc = "ph_push" /\ callers'[c] # callers[c])
                => /\ HighByte(HeaderAt(c)[1]) = 0
                   /\ \A t \in tasks' \ tasks : t.data = <<Payload>>
          /\ callers'[c].pc = "idle" /\ callers[c].pc # "idle" /\ ~has_error'
                => callers'[c].ret \in {MsgOk, MsgTruncated}]_vars

\* The scan went through a START record with one payload word and the data
\* hint after it: one closure was spawned, with seq 0 of the new generation.
C37_Witness ==
    /\ generation = 1
    /\ spawned = 1
    /\ next_seq = 1
    /\ \E c \in Callers :
          /\ callers[c].pc = "ph_loop"
          /\ callers[c].hints = RecStartL \o RecResult
          /\ callers[c].idx = 4

RECURSIVE Flatten(_)
Flatten(chunks) ==
    IF chunks = <<>> THEN <<>> ELSE Head(chunks) \o Flatten(Tail(chunks))

RECURSIVE IsSubseq(_, _)
IsSubseq(a, b) ==
    IF a = <<>> THEN TRUE
    ELSE IF b = <<>> THEN FALSE
    ELSE IF Head(a) = Head(b) THEN IsSubseq(Tail(a), Tail(b))
    ELSE IsSubseq(a, Tail(b))

\* The hints drain_to_writer has taken and put into out_buf or written:
\* all it popped, but the one it still holds.
Handled38 ==
    IF drainer.pc = "got"
    THEN SubSeq(drainer.popped, 1, Len(drainer.popped) - 1)
    ELSE drainer.popped

\* C38: drain_to_writer writes the bytes of the queued hints in the order
\* in which they were enqueued (what it wrote, followed by its out_buf, is
\* the hints it took, one after the other, and it took them in the order of
\* the pushes); with the mutex and an empty queue of an open buffer it
\* waits and writes nothing; it decides to return only with the queue empty
\* and the buffer closed, and returns Ok only with out_buf written.
C38_DrainInOrder ==
    /\ [](drainer.ret # "Err" =>
            Flatten(sink.chunks) \o drainer.out_buf = Flatten(Handled38))
    /\ [](IsSubseq(drainer.popped, guest.pushed))
    /\ [][(drainer.pc = "lock" /\ drainer' # drainer)
            => IF hint_buffer.queue = <<>> /\ ~hint_buffer.closed
               THEN drainer'.pc = "blocked" /\ sink' = sink
               ELSE drainer'.pc # "blocked"]_vars
    /\ [][(drainer.pc # "finish" /\ drainer'.pc = "finish")
            => hint_buffer.queue = <<>> /\ hint_buffer.closed]_vars
    /\ [][(drainer.pc # "done" /\ drainer'.pc = "done")
            => /\ drainer.pc = "finish" \/ drainer'.ret = "Err"
               /\ drainer'.ret = "Ok"
                    => /\ drainer'.out_buf = <<>>
                       /\ Flatten(sink'.chunks) = Flatten(drainer.popped)]_vars

\* The drain returned Ok: it took two hints at least and wrote twice, the
\* last time out_buf at its end or the last part of a long hint.
C38_Witness ==
    /\ drainer.pc = "done"
    /\ drainer.ret = "Ok"
    /\ Len(drainer.popped) >= 2
    /\ Len(sink.chunks) >= 2

\* C39: every hint enqueued while the buffer is enabled is written by the
\* running drain_to_writer, closing discards none: once close_hints has
\* joined a writer thread that returned Ok, what was written is every hint
\* the guest pushed, one after the other.
C39_NoHintDiscarded ==
    (guest.pc = "joined" /\ drainer.ret = "Ok")
        => Flatten(sink.chunks) = Flatten(guest.pushed)

\* The code the claim gives to a value of 0x00..=0x0C.
CodeOf40(v) ==
    IF v <= 3 THEN Ctrl(<<"Start", "End", "Cancel", "Error">>[v + 1])
    ELSE BuiltIn(<<"Noop", "EcRecover", "RedMod256", "AddMod256", "MulMod256",
                   "DivRem256", "WPow256", "OMul256", "WMul256">>[v - 3])

\* C40: try_from and to_u32 are inverse on 0x00..=0x0C. Of a record that
\* lies within its slice, from_u64_slice accepts the hint code v exactly
\* when v <= 0x0C; the code it gives is START, END, CANCEL, ERROR for 0..3
\* and a built-in type for 4..0x0C; to_u32 of it is v, and try_from of that
\* is the code again. A record with any other code is rejected.
C40_HintCodeRoundTrip ==
    \A c \in Callers :
        LET s == callers[c]
            within == /\ s.idx < Len(s.hints)
                      /\ Len(s.hints) >= s.idx + s.hints[s.idx + 1][2] + 1
            v == s.hints[s.idx + 1][1]
        IN  s.pc \in {"parsed", "back"} =>
              /\ within => (s.hint.ok <=> v <= 12)
              /\ (s.idx < Len(s.hints) /\ v > 12) => ~s.hint.ok
              /\ s.hint.ok =>
                   /\ s.hint.hint_code = CodeOf40(v)
                   /\ s.hint.hint_code.kind = IF v <= 3 THEN "Ctrl" ELSE "BuiltIn"
              /\ s.pc = "back" =>
                   /\ s.hint.back = v
                   /\ s.hint.again = [ok |-> TRUE, code |-> s.hint.hint_code]

\* The last code of the table went there and back, with data behind it.
C40_Witness ==
    \E c \in Callers :
        /\ callers[c].pc = "back"
        /\ callers[c].hint.back = 12
        /\ callers[c].hint.hint_code = BuiltIn("WMul256")
        /\ Len(callers[c].hint.data) = 1

====
